---- MODULE Spec2Model ----
(***************************************************************************)
(* Mixamo-MMD: the FBX binary reader (lib/fbx.ts) and the VMD writer       *)
(* (convertToVMD / writeBoneFrame) as state machines.                      *)
(*                                                                         *)
(* Times are integers in microseconds.  A float is a record                *)
(* [c, n, d]: class "fin" is the rational n/d, "slerp" a finite value      *)
(* computed by the trigonometric branch of interpolateQuat (its value is   *)
(* not tracked), "huge" a finite double outside the float32 range (n is    *)
(* its sign), "nan" / "inf" / "ninf" the non-finite doubles, and           *)
(* "undefined" a component of a JavaScript undefined.                      *)
(* A string is the tuple of its UTF-16 code units.                         *)
(***************************************************************************)
EXTENDS Integers, Sequences, FiniteSets, TLC

VARIABLES
    pc,                 \* position of the running function
    thrown,             \* the error thrown, "none" while none was
    clip,               \* convertToVMD: the RetargetedClip argument
    fps,                \* convertToVMD: the fps argument
    positionTrackMap,   \* convertToVMD: Map name -> position track
    keyframeMap,        \* convertToVMD: Map name -> Map frameNumber -> keyframe
    keyframes,          \* convertToVMD: VMDBoneKeyframe[]
    buffer,             \* convertToVMD: the ArrayBuffer, [size, segs]
    offset,             \* convertToVMD: the write cursor
    next,               \* convertToVMD: index of the next keyframe to write
    result,             \* convertToVMD: the Blob returned
    binary,             \* parseBinary: the input bytes
    header64,           \* parseBinary: fbxVersion >= 7500
    dataOffset,         \* BinaryReader.offset of the reader "data"
    stack,              \* the readNode calls in progress, innermost last
    fbx,                \* parseBinary: the forest of top-level nodes
    reader,             \* AnimationParser.reader: the FBXReader's top-level nodes
    animationStacks,    \* AnimationParser.parse: the stacks not yet visited
    clips,              \* AnimationParser.parse: the AnimationClip[] returned
    axisCurves,         \* generateQuaternions / parsePositionCurveNode: curves {x, y, z}
    generated,          \* generateQuaternions: the {times, quats} returned
    positioned,         \* parsePositionCurveNode: the {times, positions} returned
    RETARGET_TRANSFORMS, \* retarget.ts:160, the table computeRetargetTransforms fills
    boneTrack,          \* retargetBoneTrack: the BoneTrack argument
    retargetedTrack,    \* retargetBoneTrack: the RetargetedBoneTrack returned
    positionTrack,      \* retargetPositionTrack: the PositionTrack argument
    retargetedPositionTrack, \* retargetPositionTrack: the RetargetedPositionTrack returned
    readerNode,         \* the fbxNode of the FBXReaderNode that is queried
    nodeArgs,           \* FBXReaderNode.node / nodes: the arguments a and b
    nodeFound,          \* FBXReaderNode.node: the node returned
    nodesFound,         \* FBXReaderNode.nodes: the nodes returned
    int64,              \* BinaryReader.readInt64: the number returned
    response,           \* FBXLoader.load: what fetch and arrayBuffer() give
    parseOutcome,       \* FBXLoader.load: what parsing and extraction give
    onLoad,             \* FBXLoader.load: the onLoad argument
    onError,            \* FBXLoader.load: the onError argument
    onLoadCalls,        \* the calls of onLoad made
    onErrorCalls,       \* the calls of onError made
    consoleErrors,      \* the calls of console.error made
    sortedTimes,        \* playClipDirectly: the distinct key times, ascending
    frameIndex,         \* playClipDirectly: index of the next time to play
    timeoutId,          \* playClipDirectly: the id of the last timer set, or null
    stopped,            \* playClipDirectly: the flag the stop function sets
    timers,             \* the host's pending timers
    engineCalls,        \* the calls of engine.rotateBones and engine.moveBones made
    boneNames,          \* buildBoneHierarchy: the boneNames argument
    hierarchy           \* buildBoneHierarchy: the Map returned

vmdVars == <<clip, fps, positionTrackMap, keyframeMap, keyframes, buffer, offset, next, result>>
fbxVars == <<binary, header64, dataOffset, stack, fbx>>
animVars == <<reader, animationStacks, clips, axisCurves, generated, positioned,
              RETARGET_TRANSFORMS, boneTrack, retargetedTrack>>
positionVars == <<positionTrack, retargetedPositionTrack>>
queryVars == <<readerNode, nodeArgs, nodeFound, nodesFound>>
int64Vars == <<int64>>
loaderVars == <<response, parseOutcome, onLoad, onError, onLoadCalls, onErrorCalls, consoleErrors>>
playerVars == <<sortedTimes, frameIndex, timeoutId, stopped, timers, engineCalls>>
hierarchyVars == <<boneNames, hierarchy>>
apiVars == <<positionVars, queryVars, int64Vars, loaderVars, playerVars, hierarchyVars>>
vars == <<pc, thrown, vmdVars, fbxVars, animVars, apiVars>>

(***************************************************************************)
(* Bounds of the model.                                                    *)
(***************************************************************************)
MaxKeys == 2
MaxTracks == 2

(***************************************************************************)
(* Floats.                                                                 *)
(***************************************************************************)
Fin(n) == [c |-> "fin", n |-> n, d |-> 1]
NaN == [c |-> "nan", n |-> 0, d |-> 1]
PosInf == [c |-> "inf", n |-> 0, d |-> 1]
NegInf == [c |-> "ninf", n |-> 0, d |-> 1]
Huge(sign) == [c |-> "huge", n |-> sign, d |-> 1]
SlerpValue == [c |-> "slerp", n |-> 0, d |-> 1]
Undefined == [c |-> "undefined", n |-> 0, d |-> 1]

Abs(i) == IF i < 0 THEN -i ELSE i

RECURSIVE Gcd(_, _)
Gcd(a, b) == IF b = 0 THEN a ELSE Gcd(b, a % b)

\* the rational n/d in lowest terms, d > 0
Rat(n, d) ==
    LET g == Gcd(Abs(n), Abs(d))
        s == IF d < 0 THEN -1 ELSE 1
    IN  [c |-> "fin", n |-> (s * n) \div g, d |-> (s * d) \div g]

\* the global isFinite on a number
isFinite(f) == f.c \in {"fin", "slerp", "huge"}

\* DataView.setFloat32's conversion of a double to float32
ToFloat32(f) ==
    IF f.c = "huge" THEN (IF f.n < 0 THEN NegInf ELSE PosInf) ELSE f

Vec3(x, y, z) == [x |-> x, y |-> y, z |-> z]
Quat(x, y, z, w) == [x |-> x, y |-> y, z |-> z, w |-> w]
UndefinedQuat == Quat(Undefined, Undefined, Undefined, Undefined)
UndefinedVec3 == Vec3(Undefined, Undefined, Undefined)
IdentityQuat == Quat(Fin(0), Fin(0), Fin(0), Fin(1))
ZeroVec3 == Vec3(Fin(0), Fin(0), Fin(0))

(***************************************************************************)
(* Sequences, Sets and Maps as the code uses them.                         *)
(***************************************************************************)
Min(S) == CHOOSE x \in S : \A y \in S : x <= y
Max(S) == CHOOSE x \in S : \A y \in S : y <= x
Range(s) == {s[i] : i \in 1..Len(s)}

\* Array.from(set).sort((a, b) => a - b)
RECURSIVE SortedSeq(_)
SortedSeq(S) == IF S = {} THEN <<>> ELSE <<Min(S)>> \o SortedSeq(S \ {Min(S)})

\* Array.prototype.findIndex over the indices in I, 1-based; 0 stands for -1
FindFirst(I) == IF I = {} THEN 0 ELSE Min(I)

\* a Map is the sequence of its entries [k, v] in insertion order
MapHas(m, k) == \E i \in 1..Len(m) : m[i].k = k
MapGet(m, k) == m[Min({i \in 1..Len(m) : m[i].k = k})].v
MapSet(m, k, v) ==
    IF MapHas(m, k)
    THEN [i \in 1..Len(m) |-> IF m[i].k = k THEN [k |-> k, v |-> v] ELSE m[i]]
    ELSE Append(m, [k |-> k, v |-> v])
MapValues(m) == [i \in 1..Len(m) |-> m[i].v]

RECURSIVE Flatten(_)
Flatten(ss) == IF ss = <<>> THEN <<>> ELSE Head(ss) \o Flatten(Tail(ss))

(***************************************************************************)
(* Rational arithmetic on "fin" floats.                                    *)
(***************************************************************************)
RatAdd(a, b) == Rat(a.n * b.d + b.n * a.d, a.d * b.d)
RatSub(a, b) == Rat(a.n * b.d - b.n * a.d, a.d * b.d)
RatMul(a, b) == Rat(a.n * b.n, a.d * b.d)
RatLess(a, b) == a.n * b.d < b.n * a.d
RatAbs(a) == Rat(Abs(a.n), a.d)

\* a + (b - a) * t, the linear blend both interpolations use
Lerp(a, b, t) ==
    IF a.c = "fin" /\ b.c = "fin" THEN RatAdd(a, RatMul(RatSub(b, a), t)) ELSE NaN

(***************************************************************************)
(* Time and frame numbers.                                                 *)
(***************************************************************************)
MicrosPerSecond == 1000 * 1000

\* the frame number taken as the whole seconds of the time
RoundFrame_Seconds(time, f) == time \div MicrosPerSecond

\* Math.round(time * fps): the nearest integer, halves rounded up
RoundFrame(time, f) == (2 * time * f + MicrosPerSecond) \div (2 * MicrosPerSecond)

\* Math.abs(t - time) < 0.0001
WithinTolerance(t, time) == Abs(t - time) < MicrosPerSecond \div 10000

(***************************************************************************)
(* interpolateQuat and interpolatePosition.                                *)
(***************************************************************************)
QuatIsFin(q) == q.x.c = "fin" /\ q.y.c = "fin" /\ q.z.c = "fin" /\ q.w.c = "fin"
QuatNeg(q) == Quat(RatSub(Fin(0), q.x), RatSub(Fin(0), q.y), RatSub(Fin(0), q.z), RatSub(Fin(0), q.w))
QuatDot(a, b) ==
    RatAdd(RatAdd(RatMul(a.x, b.x), RatMul(a.y, b.y)), RatAdd(RatMul(a.z, b.z), RatMul(a.w, b.w)))

\* Quat.normalize(): exact on a unit quaternion, otherwise a finite value
\* that involves a square root
Normalize(q) ==
    IF QuatDot(q, q) = Fin(1) THEN q
    ELSE Quat(SlerpValue, SlerpValue, SlerpValue, SlerpValue)

\* acos(|dot|) < 0.001, that is |dot| > cos(0.001) = 0.9999995
AngleIsSmall(dot) == RatLess(Rat(9999995, 10000000), RatAbs(dot))

Slerp(q0, q1, t) ==
    IF ~(QuatIsFin(q0) /\ QuatIsFin(q1)) THEN Quat(NaN, NaN, NaN, NaN)
    ELSE
        LET dot == QuatDot(q0, q1)
            q1Adjusted == IF RatLess(dot, Fin(0)) THEN QuatNeg(q1) ELSE q1
        IN  IF AngleIsSmall(dot)
            THEN Normalize(Quat(Lerp(q0.x, q1Adjusted.x, t), Lerp(q0.y, q1Adjusted.y, t),
                                Lerp(q0.z, q1Adjusted.z, t), Lerp(q0.w, q1Adjusted.w, t)))
            ELSE Quat(SlerpValue, SlerpValue, SlerpValue, SlerpValue)

interpolateQuat(track, time) ==
    LET idx == FindFirst({i \in 1..Len(track.times) : track.times[i] >= time})
    IN  IF idx = 0
        THEN (IF Len(track.quats) = 0 THEN UndefinedQuat ELSE track.quats[Len(track.quats)])
        ELSE IF idx = 1 \/ track.times[idx] = time THEN track.quats[idx]
        ELSE LET t0 == track.times[idx - 1]
                 t1 == track.times[idx]
             IN  Slerp(track.quats[idx - 1], track.quats[idx], Rat(time - t0, t1 - t0))

interpolatePosition(track, time) ==
    LET idx == FindFirst({i \in 1..Len(track.times) : track.times[i] >= time})
    IN  IF idx = 0
        THEN (IF Len(track.positions) = 0 THEN UndefinedVec3
              ELSE track.positions[Len(track.positions)])
        ELSE IF idx = 1 \/ track.times[idx] = time THEN track.positions[idx]
        ELSE LET t0 == track.times[idx - 1]
                 t1 == track.times[idx]
                 t == Rat(time - t0, t1 - t0)
                 p0 == track.positions[idx - 1]
                 p1 == track.positions[idx]
             IN  Vec3(Lerp(p0.x, p1.x, t), Lerp(p0.y, p1.y, t), Lerp(p0.z, p1.z, t))

(***************************************************************************)
(* convertToVMD: building the keyframes.                                   *)
(***************************************************************************)
Keyframe(name, frameNumber, position, rotation) ==
    [boneName |-> name, frameNumber |-> frameNumber, position |-> position, rotation |-> rotation]

\* lines 114-118: the sorted union of all track times
AllTimes(c) ==
    UNION {Range(c.boneTracks[i].times) : i \in 1..Len(c.boneTracks)}
    \cup UNION {Range(c.positionTracks[i].times) : i \in 1..Len(c.positionTracks)}

\* line 122: positionTrackMap.set(track.name, track) for every position track
BuildPositionTrackMap(c) ==
    LET f[i \in 0..Len(c.positionTracks)] ==
            IF i = 0 THEN <<>>
            ELSE MapSet(f[i - 1], c.positionTracks[i].name, c.positionTracks[i])
    IN  f[Len(c.positionTracks)]

\* lines 141-150: the rotation and the position of a rotation track's bone at a time
RotationAt(track, time) ==
    LET rotationIdx == FindFirst({i \in 1..Len(track.times) : WithinTolerance(track.times[i], time)})
    IN  IF rotationIdx >= 1 THEN track.quats[rotationIdx] ELSE interpolateQuat(track, time)

PositionAt(posTrack, time) ==
    LET positionIdx == FindFirst({i \in 1..Len(posTrack.times) : WithinTolerance(posTrack.times[i], time)})
    IN  IF positionIdx >= 1 THEN posTrack.positions[positionIdx]
        ELSE interpolatePosition(posTrack, time)

\* RotationBoneKeyframes with the Map keyed by the time instead of the frame
RotationBoneKeyframes_KeyedByTime(track, posMap, f) ==
    LET hasPos == MapHas(posMap, track.name)
        boneTimes == Range(track.times)
                     \cup (IF hasPos THEN Range(MapGet(posMap, track.name).times) ELSE {})
        sortedBoneTimes == SortedSeq(boneTimes)
        kf(time) == Keyframe(track.name, RoundFrame(time, f),
                             IF hasPos THEN PositionAt(MapGet(posMap, track.name), time)
                             ELSE ZeroVec3,
                             RotationAt(track, time))
        m[i \in 0..Len(sortedBoneTimes)] ==
            IF i = 0 THEN <<>>
            ELSE MapSet(m[i - 1], sortedBoneTimes[i], kf(sortedBoneTimes[i]))
    IN  m[Len(sortedBoneTimes)]

\* lines 129-160: the Map frameNumber -> keyframe of one rotation track
RotationBoneKeyframes(track, posMap, f) ==
    LET hasPos == MapHas(posMap, track.name)
        boneTimes == Range(track.times)
                     \cup (IF hasPos THEN Range(MapGet(posMap, track.name).times) ELSE {})
        sortedBoneTimes == SortedSeq(boneTimes)
        kf(time) == Keyframe(track.name, RoundFrame(time, f),
                             IF hasPos THEN PositionAt(MapGet(posMap, track.name), time)
                             ELSE ZeroVec3,
                             RotationAt(track, time))
        m[i \in 0..Len(sortedBoneTimes)] ==
            IF i = 0 THEN <<>>
            ELSE MapSet(m[i - 1], RoundFrame(sortedBoneTimes[i], f), kf(sortedBoneTimes[i]))
    IN  m[Len(sortedBoneTimes)]

\* BuildRotationKeyframes with one entry per track, not per name
BuildRotationKeyframes_PerTrack(c, posMap, f) ==
    [i \in 1..Len(c.boneTracks) |->
        [k |-> c.boneTracks[i].name, v |-> RotationBoneKeyframes(c.boneTracks[i], posMap, f)]]

\* lines 128-163
BuildRotationKeyframes(c, posMap, f) ==
    LET m[i \in 0..Len(c.boneTracks)] ==
            IF i = 0 THEN <<>>
            ELSE MapSet(m[i - 1], c.boneTracks[i].name,
                        RotationBoneKeyframes(c.boneTracks[i], posMap, f))
    IN  m[Len(c.boneTracks)]

\* PositionBoneKeyframes with the rotation left undefined-free but not the identity
PositionBoneKeyframes_ZeroRotation(posTrack, f) ==
    LET m[i \in 0..Len(posTrack.times)] ==
            IF i = 0 THEN <<>>
            ELSE MapSet(m[i - 1], RoundFrame(posTrack.times[i], f),
                        Keyframe(posTrack.name, RoundFrame(posTrack.times[i], f),
                                 PositionAt(posTrack, posTrack.times[i]),
                                 Quat(Fin(0), Fin(0), Fin(0), Fin(0))))
    IN  m[Len(posTrack.times)]

\* lines 168-184: the Map frameNumber -> keyframe of a position-only bone
PositionBoneKeyframes(posTrack, f) ==
    LET m[i \in 0..Len(posTrack.times)] ==
            IF i = 0 THEN <<>>
            ELSE MapSet(m[i - 1], RoundFrame(posTrack.times[i], f),
                        Keyframe(posTrack.name, RoundFrame(posTrack.times[i], f),
                                 PositionAt(posTrack, posTrack.times[i]), IdentityQuat))
    IN  m[Len(posTrack.times)]

\* lines 165-188
BuildPositionKeyframes(c, kfMap, f) ==
    LET rotationBoneNames == {c.boneTracks[i].name : i \in 1..Len(c.boneTracks)}
        m[i \in 0..Len(c.positionTracks)] ==
            IF i = 0 THEN kfMap
            ELSE IF c.positionTracks[i].name \notin rotationBoneNames
                 THEN MapSet(m[i - 1], c.positionTracks[i].name,
                             PositionBoneKeyframes(c.positionTracks[i], f))
                 ELSE m[i - 1]
    IN  m[Len(c.positionTracks)]

\* lines 190-194
CollectKeyframes(kfMap) ==
    Flatten([i \in 1..Len(kfMap) |-> MapValues(kfMap[i].v)])

(***************************************************************************)
(* The comparator of keyframes.sort and the sort.                          *)
(***************************************************************************)
RECURSIVE LexCompare(_, _)
LexCompare(s, t) ==
    IF s = <<>> /\ t = <<>> THEN 0
    ELSE IF s = <<>> THEN -1
    ELSE IF t = <<>> THEN 1
    ELSE IF Head(s) < Head(t) THEN -1
    ELSE IF Head(s) > Head(t) THEN 1
    ELSE LexCompare(Tail(s), Tail(t))

\* String.prototype.localeCompare on names of ASCII letters: the collation
\* compares the letters without their case first, and only when these are
\* equal the case, a lower-case letter before its upper-case letter
IsUpper(u) == u >= 65 /\ u <= 90
localeCompare(a, b) ==
    LET primary(s) == [i \in 1..Len(s) |-> IF IsUpper(s[i]) THEN s[i] + 32 ELSE s[i]]
        tertiary(s) == [i \in 1..Len(s) |-> IF IsUpper(s[i]) THEN 1 ELSE 0]
        p == LexCompare(primary(a), primary(b))
    IN  IF p # 0 THEN p ELSE LexCompare(tertiary(a), tertiary(b))

\* CompareKeyframes with the names compared by code units
CompareKeyframes_CodeUnits(a, b) ==
    IF a.frameNumber # b.frameNumber THEN a.frameNumber - b.frameNumber
    ELSE LexCompare(a.boneName, b.boneName)

\* lines 196-201
CompareKeyframes(a, b) ==
    IF a.frameNumber # b.frameNumber THEN a.frameNumber - b.frameNumber
    ELSE localeCompare(a.boneName, b.boneName)

\* Array.prototype.sort: stable
RECURSIVE InsertSorted(_, _)
InsertSorted(s, x) ==
    IF s = <<>> THEN <<x>>
    ELSE IF CompareKeyframes(x, Head(s)) < 0 THEN <<x>> \o s
    ELSE <<Head(s)>> \o InsertSorted(Tail(s), x)

SortKeyframes(s) ==
    LET f[i \in 0..Len(s)] == IF i = 0 THEN <<>> ELSE InsertSorted(f[i - 1], s[i])
    IN  f[Len(s)]

(***************************************************************************)
(* The buffer.  An ArrayBuffer is [size, segs, threw]: segs lists the      *)
(* DataView writes in order, each [off, len, kind, val]; threw is set by a *)
(* write outside the buffer (RangeError).                                  *)
(***************************************************************************)
NewBuffer(size) == [size |-> size, segs |-> <<>>, threw |-> FALSE]

Put(buf, off, len, kind, val) ==
    [buf EXCEPT !.segs = Append(@, [off |-> off, len |-> len, kind |-> kind, val |-> val]),
                !.threw = @ \/ off + len > buf.size]

\* encodeShiftJIS on the characters the model uses: an ASCII character is
\* one byte, each of the Japanese characters of the IK names two
SjisBytes(u) ==
    IF u < 128 THEN <<u>>
    ELSE IF u = 21491 THEN <<137, 69>>       \* U+53F3
    ELSE IF u = 24038 THEN <<141, 182>>      \* U+5DE6
    ELSE IF u = 36275 THEN <<145, 171>>      \* U+8DB3
    ELSE IF u = 35242 THEN <<144, 101>>      \* U+89AA
    ELSE IF u = 65321 THEN <<130, 104>>      \* U+FF29
    ELSE IF u = 65323 THEN <<130, 106>>      \* U+FF2B
    ELSE IF u = 12388 THEN <<130, 194>>      \* U+3064
    ELSE IF u = 12414 THEN <<130, 220>>      \* U+307E
    ELSE IF u = 20808 THEN <<144, 230>>      \* U+5148
    ELSE <<63>>

encodeShiftJIS(str) == Flatten([i \in 1..Len(str) |-> SjisBytes(str[i])])

\* the loop "i < n ? nameBytes[i] : 0" over a field of n bytes
NameField(str, n) ==
    LET nameBytes == encodeShiftJIS(str)
    IN  [i \in 1..n |-> IF i <= Len(nameBytes) THEN nameBytes[i] ELSE 0]

\* lines 28-30 and 36-39: the substitution of non-finite components
SafePosition(v) == IF isFinite(v) THEN v ELSE Fin(0)
SafeRotationXYZ(v) == IF isFinite(v) THEN v ELSE Fin(0)
SafeRotationW(v) == IF isFinite(v) THEN v ELSE Fin(1)

\* writeBoneFrame (lines 18-52): [buffer, offset, threw]; threw is the
\* TypeError of reading a component of an undefined position or rotation
writeBoneFrame(buf, off, keyframe) ==
    LET b1 == Put(buf, off, 15, "name", NameField(keyframe.boneName, 15))
        b2 == Put(b1, off + 15, 4, "frame", keyframe.frameNumber)
        o2 == off + 19
        b3 == Put(b2, o2, 4, "posX", ToFloat32(SafePosition(keyframe.position.x)))
        b4 == Put(b3, o2 + 4, 4, "posY", ToFloat32(SafePosition(keyframe.position.y)))
        b5 == Put(b4, o2 + 8, 4, "posZ", ToFloat32(SafePosition(keyframe.position.z)))
        o3 == o2 + 12
        b6 == Put(b5, o3, 4, "rotX", ToFloat32(SafeRotationXYZ(keyframe.rotation.x)))
        b7 == Put(b6, o3 + 4, 4, "rotY", ToFloat32(SafeRotationXYZ(keyframe.rotation.y)))
        b8 == Put(b7, o3 + 8, 4, "rotZ", ToFloat32(SafeRotationXYZ(keyframe.rotation.z)))
        b9 == Put(b8, o3 + 12, 4, "rotW", ToFloat32(SafeRotationW(keyframe.rotation.w)))
        o4 == o3 + 16
        b10 == Put(b9, o4, 64, "interpolation", 20)
    IN  IF keyframe.position = UndefinedVec3 THEN [buffer |-> b2, offset |-> o2, threw |-> TRUE]
        ELSE IF keyframe.rotation = UndefinedQuat
             THEN [buffer |-> b5, offset |-> o3, threw |-> TRUE]
        ELSE [buffer |-> b10, offset |-> o4 + 64, threw |-> b10.threw]

\* lines 204-211
ikDisabledBones ==
    << <<21491, 36275, 73, 75, 35242>>,
       <<24038, 36275, 73, 75, 35242>>,
       <<21491, 36275, 65321, 65323>>,
       <<24038, 36275, 65321, 65323>>,
       <<21491, 12388, 12414, 20808, 65321, 65323>>,
       <<24038, 12388, 12414, 20808, 65321, 65323>> >>

\* lines 212-222
hasPropertyKeyframes == Len(ikDisabledBones) > 0
propertyKeyframeSize == 4 + 1 + 4 + (Len(ikDisabledBones) * (20 + 1))
headerSize == 50
boneFrameSize == 111
morphFrameCount == 0
morphFrameSize == 23
cameraFrameCount == 0
lightFrameCount == 0
selfShadowFrameCount == 0
propertyKeyframeCount == IF hasPropertyKeyframes THEN 1 ELSE 0

\* TotalSize with the morph section counted as holding one frame
TotalSize_OneMorph(nKeyframes) ==
    headerSize + 4 + (boneFrameSize * nKeyframes) + 4 + (morphFrameSize * 1)
    + 4 + 4 + 4 + 4 + (propertyKeyframeSize * propertyKeyframeCount)

\* lines 224-230
TotalSize(nKeyframes) ==
    headerSize
    + 4 + (boneFrameSize * nKeyframes)
    + 4 + (morphFrameSize * morphFrameCount)
    + 4
    + 4
    + 4
    + 4 + (propertyKeyframeSize * propertyKeyframeCount)

\* lines 236-248: the signature, the model name and the bone-frame count
vmdSignature == <<86, 111, 99, 97, 108, 111, 105, 100, 32, 77, 111, 116, 105, 111, 110,
                  32, 68, 97, 116, 97, 32, 48, 48, 48, 50>>
WriteHeader(buf, nKeyframes) ==
    LET b1 == Put(buf, 0, 30, "signature",
                  [i \in 1..30 |-> IF i <= Len(vmdSignature) THEN vmdSignature[i] ELSE 0])
        b2 == Put(b1, 30, 20, "modelName", [i \in 1..20 |-> 0])
    IN  Put(b2, 50, 4, "boneCount", nKeyframes)

\* lines 273-281: the IK entries from entry i on
RECURSIVE WriteIkStates(_, _, _)
WriteIkStates(buf, off, i) ==
    IF i > Len(ikDisabledBones) THEN [buffer |-> buf, offset |-> off]
    ELSE WriteIkStates(
            Put(Put(buf, off, 20, "ikName", NameField(ikDisabledBones[i], 20)),
                off + 20, 1, "ikEnable", 0),
            off + 21, i + 1)

\* WriteTail with the IK entries left enabled
WriteTail_IkEnabled(buf, off) ==
    LET b1 == Put(buf, off, 4, "morphCount", morphFrameCount)
        b2 == Put(b1, off + 4, 4, "cameraCount", cameraFrameCount)
        b3 == Put(b2, off + 8, 4, "lightCount", lightFrameCount)
        b4 == Put(b3, off + 12, 4, "selfShadowCount", selfShadowFrameCount)
        b5 == Put(b4, off + 16, 4, "propertyCount", propertyKeyframeCount)
        b6 == Put(b5, off + 20, 4, "propertyFrame", 0)
        b7 == Put(b6, off + 24, 1, "visible", 1)
        b8 == Put(b7, off + 25, 4, "ikCount", Len(ikDisabledBones))
        f[i \in 0..Len(ikDisabledBones)] ==
            IF i = 0 THEN b8
            ELSE Put(Put(f[i - 1], off + 29 + 21 * (i - 1), 20, "ikName",
                         NameField(ikDisabledBones[i], 20)),
                     off + 29 + 21 * (i - 1) + 20, 1, "ikEnable", 1)
    IN  [buffer |-> f[Len(ikDisabledBones)], offset |-> off + 29 + 21 * Len(ikDisabledBones)]

\* lines 254-282: the four empty sections and the property section
WriteTail(buf, off) ==
    LET b1 == Put(buf, off, 4, "morphCount", morphFrameCount)
        b2 == Put(b1, off + 4, 4, "cameraCount", cameraFrameCount)
        b3 == Put(b2, off + 8, 4, "lightCount", lightFrameCount)
        b4 == Put(b3, off + 12, 4, "selfShadowCount", selfShadowFrameCount)
        b5 == Put(b4, off + 16, 4, "propertyCount", propertyKeyframeCount)
        o5 == off + 20
        b6 == Put(b5, o5, 4, "propertyFrame", 0)
        b7 == Put(b6, o5 + 4, 1, "visible", 1)
        b8 == Put(b7, o5 + 5, 4, "ikCount", Len(ikDisabledBones))
    IN  IF hasPropertyKeyframes THEN WriteIkStates(b8, o5 + 9, 1)
        ELSE [buffer |-> b5, offset |-> o5]

\* new Blob() and new Blob([buffer])
EmptyBlob == [size |-> 0, segs |-> <<>>]
BlobOf(buf) == [size |-> buf.size, segs |-> buf.segs]
NoBlob == [size |-> -1, segs |-> <<>>]

(***************************************************************************)
(* The inputs of convertToVMD.  Track times are strictly increasing; the   *)
(* values of a track are one per time.  The times 0 and 50 us lie within   *)
(* the 0.0001 s tolerance of each other; at 30 fps the times 16667 us and  *)
(* 33333 us round to the same frame, at 60 fps they do not; 1 s is frame   *)
(* 30 at 30 fps.  The names are "a" and "B", which code units and          *)
(* collation order differently, and "RightHandMiddle4" and                 *)
(* "RightHandMiddle5", two names the bone map passes through unchanged     *)
(* that are longer than the 15 bytes of a record's name field.             *)
(***************************************************************************)
TimeValues == {0, 50, 16667, 33333, MicrosPerSecond}
FpsValues == {30, 60}
RightHandMiddle == <<82, 105, 103, 104, 116, 72, 97, 110, 100, 77, 105, 100, 100, 108, 101>>
BoneNames == {<<97>>, <<66>>, RightHandMiddle \o <<52>>, RightHandMiddle \o <<53>>}

TimeLists == {SortedSeq(S) : S \in {T \in SUBSET TimeValues : Cardinality(T) <= MaxKeys}}

QuatSample(k) ==
    IF k % 2 = 1 THEN IdentityQuat ELSE Quat(Fin(1), Fin(0), Fin(0), Fin(0))
PositionSample(k) == Vec3(Fin(0), Fin(100 * k), Fin(0))

BoneTrack(name, times) ==
    [name |-> name, times |-> times, quats |-> [k \in 1..Len(times) |-> QuatSample(k)]]
PositionTrack(name, times) ==
    [name |-> name, times |-> times, positions |-> [k \in 1..Len(times) |-> PositionSample(k)]]

TrackChoices(n) == [1..n -> BoneNames \X TimeLists]

\* the clip with the rotation tracks r and the position tracks p, each a
\* sequence of <<name, times>>
Clip(r, p) ==
    [boneTracks |-> [i \in 1..Len(r) |-> BoneTrack(r[i][1], r[i][2])],
     positionTracks |-> [i \in 1..Len(p) |-> PositionTrack(p[i][1], p[i][2])]]

NoClip == [boneTracks |-> <<>>, positionTracks |-> <<>>]

\* the reader's variables while no parse runs, and the writer's while no
\* conversion runs
FbxIdle ==
    /\ binary = <<>>
    /\ header64 = FALSE
    /\ dataOffset = 0
    /\ stack = <<>>
    /\ fbx = <<>>

\* the extractor's, the rotation assembler's and the retargeter's variables
\* while none of them runs
AnimIdle ==
    /\ reader = <<>>
    /\ animationStacks = <<>>
    /\ clips = <<>>
    /\ axisCurves = <<>>
    /\ generated = <<>>
    /\ positioned = <<>>
    /\ RETARGET_TRANSFORMS = <<>>
    /\ boneTrack = <<>>
    /\ retargetedTrack = <<>>

\* the variables of the other entry points while none of them runs
PositionIdle ==
    /\ positionTrack = <<>>
    /\ retargetedPositionTrack = <<>>
QueryIdle ==
    /\ readerNode = <<>>
    /\ nodeArgs = <<>>
    /\ nodeFound = <<>>
    /\ nodesFound = <<>>
Int64Idle == int64 = <<>>
LoaderIdle ==
    /\ response = ""
    /\ parseOutcome = ""
    /\ onLoad = <<>>
    /\ onError = <<>>
    /\ onLoadCalls = 0
    /\ onErrorCalls = 0
    /\ consoleErrors = 0
PlayerIdle ==
    /\ sortedTimes = <<>>
    /\ frameIndex = 0
    /\ timeoutId = 0
    /\ stopped = FALSE
    /\ timers = {}
    /\ engineCalls = <<>>
HierarchyIdle ==
    /\ boneNames = <<>>
    /\ hierarchy = <<>>
ApiIdle ==
    /\ PositionIdle
    /\ QueryIdle
    /\ Int64Idle
    /\ LoaderIdle
    /\ PlayerIdle
    /\ HierarchyIdle

VmdIdle ==
    /\ clip = NoClip
    /\ fps = 30
    /\ positionTrackMap = <<>>
    /\ keyframeMap = <<>>
    /\ keyframes = <<>>
    /\ buffer = NewBuffer(0)
    /\ offset = 0
    /\ next = 1
    /\ result = NoBlob

(***************************************************************************)
(* convertToVMD as steps.                                                  *)
(***************************************************************************)
InitVMD ==
    /\ pc = "start"
    /\ \E nr \in 0..MaxTracks :
       \E np \in 0..(MaxTracks - nr) :
       \E r \in TrackChoices(nr) :
       \E p \in TrackChoices(np) :
           clip = Clip(r, p)
    /\ fps \in FpsValues
    /\ positionTrackMap = <<>>
    /\ keyframeMap = <<>>
    /\ keyframes = <<>>
    /\ buffer = NewBuffer(0)
    /\ offset = 0
    /\ next = 1
    /\ result = NoBlob
    /\ thrown = "none"
    /\ FbxIdle
    /\ AnimIdle
    /\ ApiIdle

\* lines 113-122
ConvertStart ==
    /\ pc = "start"
    /\ IF Len(SortedSeq(AllTimes(clip))) = 0
       THEN /\ result' = EmptyBlob
            /\ pc' = "done"
            /\ UNCHANGED positionTrackMap
       ELSE /\ positionTrackMap' = BuildPositionTrackMap(clip)
            /\ pc' = "rotationTracks"
            /\ UNCHANGED result
    /\ UNCHANGED <<clip, fps, keyframeMap, keyframes, buffer, offset, next, thrown, fbxVars, animVars, apiVars>>

\* lines 125-163
RotationTracks ==
    /\ pc = "rotationTracks"
    /\ keyframeMap' = BuildRotationKeyframes(clip, positionTrackMap, fps)
    /\ pc' = "positionTracks"
    /\ UNCHANGED <<clip, fps, positionTrackMap, keyframes, buffer, offset, next, result, thrown, fbxVars, animVars, apiVars>>

\* lines 165-188
PositionTracks ==
    /\ pc = "positionTracks"
    /\ keyframeMap' = BuildPositionKeyframes(clip, keyframeMap, fps)
    /\ pc' = "sort"
    /\ UNCHANGED <<clip, fps, positionTrackMap, keyframes, buffer, offset, next, result, thrown, fbxVars, animVars, apiVars>>

\* lines 190-201
SortStep ==
    /\ pc = "sort"
    /\ keyframes' = SortKeyframes(CollectKeyframes(keyframeMap))
    /\ pc' = "allocate"
    /\ UNCHANGED <<clip, fps, positionTrackMap, keyframeMap, buffer, offset, next, result, thrown, fbxVars, animVars, apiVars>>

\* lines 203-248
Allocate ==
    /\ pc = "allocate"
    /\ LET b == WriteHeader(NewBuffer(TotalSize(Len(keyframes))), Len(keyframes))
       IN  /\ buffer' = b
           /\ pc' = IF b.threw THEN "error" ELSE "boneFrames"
           /\ thrown' = IF b.threw THEN "RangeError" ELSE thrown
    /\ offset' = 30 + 20 + 4
    /\ next' = 1
    /\ UNCHANGED <<clip, fps, positionTrackMap, keyframeMap, keyframes, result, fbxVars, animVars, apiVars>>

\* lines 250-252, one turn of the loop
WriteBoneFrame ==
    /\ pc = "boneFrames"
    /\ next <= Len(keyframes)
    /\ LET r == writeBoneFrame(buffer, offset, keyframes[next])
       IN  /\ buffer' = r.buffer
           /\ offset' = r.offset
           /\ pc' = IF r.threw THEN "error" ELSE "boneFrames"
           /\ thrown' = IF r.buffer.threw THEN "RangeError"
                         ELSE IF r.threw THEN "TypeError" ELSE thrown
    /\ next' = next + 1
    /\ UNCHANGED <<clip, fps, positionTrackMap, keyframeMap, keyframes, result, fbxVars, animVars, apiVars>>

\* lines 254-284
WriteTailAndReturn ==
    /\ pc = "boneFrames"
    /\ next > Len(keyframes)
    /\ LET r == WriteTail(buffer, offset)
       IN  /\ buffer' = r.buffer
           /\ offset' = r.offset
           /\ IF r.buffer.threw
              THEN pc' = "error" /\ thrown' = "RangeError" /\ UNCHANGED result
              ELSE pc' = "done" /\ result' = BlobOf(r.buffer) /\ UNCHANGED thrown
    /\ UNCHANGED <<clip, fps, positionTrackMap, keyframeMap, keyframes, next, fbxVars, animVars, apiVars>>

NextVMD ==
    \/ ConvertStart
    \/ RotationTracks
    \/ PositionTracks
    \/ SortStep
    \/ Allocate
    \/ WriteBoneFrame
    \/ WriteTailAndReturn

SpecVMD == InitVMD /\ [][NextVMD]_vars

(***************************************************************************)
(* Reading the returned blob back.                                         *)
(***************************************************************************)
SegsOfKind(blob, kind) == {j \in 1..Len(blob.segs) : blob.segs[j].kind = kind}

\* the bone-frame records of a blob, in the order they lie in it
BoneFrameRecords(blob) ==
    LET at == SortedSeq(SegsOfKind(blob, "name"))
    IN  [k \in 1..Len(at) |->
            [name |-> blob.segs[at[k]].val,
             frame |-> blob.segs[at[k] + 1].val,
             position |-> Vec3(blob.segs[at[k] + 2].val, blob.segs[at[k] + 3].val,
                               blob.segs[at[k] + 4].val),
             rotation |-> Quat(blob.segs[at[k] + 5].val, blob.segs[at[k] + 6].val,
                               blob.segs[at[k] + 7].val, blob.segs[at[k] + 8].val)]]

\* the records of a blob written for a name; record k is written from
\* keyframes[k], and its name field holds the first 15 bytes of the name
RecordsOfBone(blob, name) ==
    {k \in 1..Len(BoneFrameRecords(blob)) :
        /\ BoneFrameRecords(blob)[k].name = NameField(name, 15)
        /\ k <= Len(keyframes)
        /\ keyframes[k].boneName = name}

Returned == pc = "done"
HasKeyTime == AllTimes(clip) # {}

RotationTracksNamed(name) == {i \in 1..Len(clip.boneTracks) : clip.boneTracks[i].name = name}
PositionTracksNamed(name) ==
    {i \in 1..Len(clip.positionTracks) : clip.positionTracks[i].name = name}
TrackedNames ==
    {clip.boneTracks[i].name : i \in 1..Len(clip.boneTracks)}
    \cup {clip.positionTracks[i].name : i \in 1..Len(clip.positionTracks)}

\* the times of all rotation tracks, and of all position tracks, of a name
RotationTimes(name) == UNION {Range(clip.boneTracks[i].times) : i \in RotationTracksNamed(name)}
PositionTimes(name) ==
    UNION {Range(clip.positionTracks[i].times) : i \in PositionTracksNamed(name)}

\* the times of the last rotation track and of the last position track of a name
LastRotationTimes(name) ==
    IF RotationTracksNamed(name) = {} THEN {}
    ELSE Range(clip.boneTracks[Max(RotationTracksNamed(name))].times)
LastPositionTimes(name) ==
    IF PositionTracksNamed(name) = {} THEN {}
    ELSE Range(clip.positionTracks[Max(PositionTracksNamed(name))].times)

(***************************************************************************)
(* C1.  As claimed: for a clip with at least one key time the returned     *)
(* blob is 50 + 4 + 111*N + 4*4 + 4 + 125 bytes long, N the number of      *)
(* bone-frame records written.                                             *)
(***************************************************************************)
C1_SizeWith125 ==
    (Returned /\ HasKeyTime) =>
        result.size = 50 + 4 + 111 * Len(BoneFrameRecords(result)) + 4 * 4 + 4 + 125

(* C1, amended: the property keyframe is 4 + 1 + 4 + 6 * 21 = 135 bytes,  *)
(* so the blob is 50 + 4 + 111*N + 4*4 + 4 + 135 bytes long.               *)
C1_SizeWith135 ==
    (Returned /\ HasKeyTime) =>
        result.size = 50 + 4 + 111 * Len(BoneFrameRecords(result)) + 4 * 4 + 4 + 135

C1_Witness ==
    /\ Returned
    /\ HasKeyTime
    /\ Len(BoneFrameRecords(result)) = 2
    /\ result.size = 431

(***************************************************************************)
(* C2.  As claimed: for every input clip, a clip without key times         *)
(* included, the returned blob holds exactly one property keyframe (frame  *)
(* 0, visibility 1) with six IK entries, each with enable byte 0.          *)
(***************************************************************************)
OnePropertyKeyframe(blob) ==
    /\ Cardinality(SegsOfKind(blob, "propertyCount")) = 1
    /\ \A j \in SegsOfKind(blob, "propertyCount") : blob.segs[j].val = 1
    /\ Cardinality(SegsOfKind(blob, "propertyFrame")) = 1
    /\ \A j \in SegsOfKind(blob, "propertyFrame") : blob.segs[j].val = 0
    /\ Cardinality(SegsOfKind(blob, "visible")) = 1
    /\ \A j \in SegsOfKind(blob, "visible") : blob.segs[j].val = 1
    /\ \A j \in SegsOfKind(blob, "ikCount") : blob.segs[j].val = 6
    /\ Cardinality(SegsOfKind(blob, "ikName")) = 6
    /\ Cardinality(SegsOfKind(blob, "ikEnable")) = 6
    /\ \A j \in SegsOfKind(blob, "ikEnable") : blob.segs[j].val = 0

C2_EveryClip == Returned => OnePropertyKeyframe(result)

(* C2, amended: the same for every clip with at least one key time; a     *)
(* clip without key times returns an empty blob.                           *)
C2_ClipsWithKeyTime ==
    /\ (Returned /\ HasKeyTime) => OnePropertyKeyframe(result)
    /\ (Returned /\ ~HasKeyTime) => result = EmptyBlob

C2_Witness == Returned /\ HasKeyTime /\ OnePropertyKeyframe(result)

(***************************************************************************)
(* C3.  As claimed: for every bone with a rotation or a position track the *)
(* number of its records equals the number of distinct times in the union  *)
(* of its rotation-track and position-track times.                         *)
(***************************************************************************)
C3_OneRecordPerTime ==
    Returned =>
        \A name \in TrackedNames :
            Cardinality(RecordsOfBone(result, name))
                = Cardinality(RotationTimes(name) \cup PositionTimes(name))

\* the times convertToVMD visits for a name: those of its last rotation
\* track and last position track, or of its last position track alone when
\* the name has no rotation track
VisitedTimes(name) == LastRotationTimes(name) \cup LastPositionTimes(name)

(* C3, amended: a bone has one record per distinct frame index            *)
(* round(t*fps) of the times of its rotation track and position track     *)
(* (the last track of each kind when several carry the name); times that  *)
(* round to the same frame index share one record.                        *)
C3_OneRecordPerFrame ==
    (Returned /\ HasKeyTime) =>
        \A name \in TrackedNames :
            Cardinality(RecordsOfBone(result, name))
                = Cardinality({RoundFrame(t, fps) : t \in VisitedTimes(name)})

C3_Witness ==
    /\ Returned
    /\ \E name \in TrackedNames :
        /\ Cardinality(VisitedTimes(name)) = 2
        /\ Cardinality(RecordsOfBone(result, name)) = 1

(***************************************************************************)
(* C4.  As claimed: the records of the blob are in ascending frame-index   *)
(* order and records with equal frame index are in the code-unit order of  *)
(* their bone names.                                                       *)
(***************************************************************************)
\* the blob holds the keyframes array in its order
BlobHoldsKeyframes ==
    /\ Len(BoneFrameRecords(result)) = Len(keyframes)
    /\ \A k \in 1..Len(keyframes) :
        /\ BoneFrameRecords(result)[k].name = NameField(keyframes[k].boneName, 15)
        /\ BoneFrameRecords(result)[k].frame = keyframes[k].frameNumber

C4_CodeUnitOrder ==
    (Returned /\ HasKeyTime) =>
        /\ BlobHoldsKeyframes
        /\ \A k \in 1..(Len(keyframes) - 1) :
            \/ keyframes[k].frameNumber < keyframes[k + 1].frameNumber
            \/ /\ keyframes[k].frameNumber = keyframes[k + 1].frameNumber
               /\ LexCompare(keyframes[k].boneName, keyframes[k + 1].boneName) <= 0

(* C4, amended: ascending frame index, and records with equal frame index *)
(* in the order of String.localeCompare of their bone names, which is a   *)
(* collation order and not the code-unit order.                           *)
C4_LocaleOrder ==
    (Returned /\ HasKeyTime) =>
        /\ BlobHoldsKeyframes
        /\ \A k \in 1..(Len(keyframes) - 1) :
            \/ keyframes[k].frameNumber < keyframes[k + 1].frameNumber
            \/ /\ keyframes[k].frameNumber = keyframes[k + 1].frameNumber
               /\ localeCompare(keyframes[k].boneName, keyframes[k + 1].boneName) <= 0

C4_Witness ==
    /\ Returned
    /\ BlobHoldsKeyframes
    /\ \E k \in 1..(Len(keyframes) - 1) :
        /\ keyframes[k].frameNumber = keyframes[k + 1].frameNumber
        /\ keyframes[k].boneName = <<97>>
        /\ keyframes[k + 1].boneName = <<66>>
    /\ \E k \in 1..(Len(keyframes) - 1) :
        keyframes[k].frameNumber < keyframes[k + 1].frameNumber

(***************************************************************************)
(* C6.  As claimed: every record of a bone with only a position track has  *)
(* rotation (0,0,0,1), and every record written for a bone at a time where *)
(* only its rotation track has a key has position (0,0,0).                 *)
(***************************************************************************)
PositionOnlyNames == {n \in TrackedNames : RotationTracksNamed(n) = {}}
RotationOnlyNames == {n \in TrackedNames : PositionTracksNamed(n) = {}}

PositionOnlyHasIdentity ==
    \A name \in PositionOnlyNames :
        \A k \in RecordsOfBone(result, name) :
            BoneFrameRecords(result)[k].rotation = IdentityQuat

\* the times of a bone at which its rotation track has a key and its
\* position track, if it has one, has none, and whose frame index no other
\* time of the bone shares
RotationKeyAlone(name) ==
    {t \in RotationTimes(name) \ PositionTimes(name) :
        \A u \in RotationTimes(name) \cup PositionTimes(name) :
            u # t => RoundFrame(u, fps) # RoundFrame(t, fps)}

RotationComponents == {Fin(0), Fin(1), NaN, PosInf, Huge(1)}
PositionComponents == {Fin(0), Fin(100), NaN, NegInf, Huge(-1)}

KeyframeInputs ==
    {Keyframe(<<97>>, 0, ZeroVec3, Quat(x, y, z, w)) :
        <<x, y, z, w>> \in RotationComponents \X RotationComponents
                           \X RotationComponents \X RotationComponents}
    \cup {Keyframe(<<97>>, 0, Vec3(x, y, z), IdentityQuat) :
        <<x, y, z>> \in PositionComponents \X PositionComponents \X PositionComponents}

InitWriteBoneFrame ==
    /\ pc = "writeBoneFrame"
    /\ thrown = "none"
    /\ clip = NoClip
    /\ fps = 30
    /\ positionTrackMap = <<>>
    /\ keyframeMap = <<>>
    /\ keyframes \in {<<k>> : k \in KeyframeInputs}
    /\ buffer = NewBuffer(boneFrameSize)
    /\ offset = 0
    /\ next = 1
    /\ result = NoBlob
    /\ FbxIdle
    /\ AnimIdle
    /\ ApiIdle

CallWriteBoneFrame ==
    /\ pc = "writeBoneFrame"
    /\ LET r == writeBoneFrame(buffer, offset, keyframes[next])
       IN  /\ buffer' = r.buffer
           /\ offset' = r.offset
           /\ pc' = IF r.threw THEN "error" ELSE "returned"
           /\ thrown' = IF r.threw THEN "RangeError" ELSE thrown
    /\ next' = next + 1
    /\ UNCHANGED <<clip, fps, positionTrackMap, keyframeMap, keyframes, result, fbxVars, animVars, apiVars>>

NextWriteBoneFrame == CallWriteBoneFrame

SpecWriteBoneFrame == InitWriteBoneFrame /\ [][NextWriteBoneFrame]_vars

(***************************************************************************)
(* C5.  As claimed: a rotation with a non-finite component is written as   *)
(* the identity (0,0,0,1), a non-finite position component is written as   *)
(* 0, and no non-finite value is written to the blob.                      *)
(***************************************************************************)
NonFinite(f) == f.c \in {"nan", "inf", "ninf"}

C5_NonFiniteReplaced ==
    pc = "returned" =>
        LET k == keyframes[1]
            rec == BoneFrameRecords(buffer)[1]
        IN  /\ (NonFinite(k.rotation.x) \/ NonFinite(k.rotation.y)
                \/ NonFinite(k.rotation.z) \/ NonFinite(k.rotation.w))
                    => rec.rotation = IdentityQuat
            /\ NonFinite(k.position.x) => rec.position.x = Fin(0)
            /\ NonFinite(k.position.y) => rec.position.y = Fin(0)
            /\ NonFinite(k.position.z) => rec.position.z = Fin(0)
            /\ \A f \in {rec.position.x, rec.position.y, rec.position.z,
                         rec.rotation.x, rec.rotation.y, rec.rotation.z, rec.rotation.w} :
                    ~NonFinite(f)

(***************************************************************************)
(* The FBX binary reader: BinaryReader, parseBinary, readNode,             *)
(* readProperty.                                                           *)
(*                                                                         *)
(* The input is the sequence of its bytes.  A number that the 32-bit       *)
(* integers of the model cannot hold (a uint32 of 2^31 or more, a uint64   *)
(* with a non-zero high word, a cursor moved that far) is the value Far;   *)
(* a comparison whose outcome two such numbers would decide is left open.  *)
(* The input bytes are below 128, where TextDecoder maps a byte to the     *)
(* code unit of the same value.                                            *)
(***************************************************************************)
MaxNodes == 2   \* a node list keeps its last MaxNodes entries
MaxDepth == 3   \* readNode calls in progress before the call stack is exhausted

NaNOffset == -1          \* this.offset after "+= undefined"
undefinedByte == -1      \* this.binary[i] with i outside the array
Far == 2147483647

SatAdd(a, b) == IF a >= Far - b THEN Far ELSE a + b

\* this.offset += n
Advance(off, n) ==
    IF off = NaNOffset \/ n = undefinedByte THEN NaNOffset ELSE SatAdd(off, n)

\* lines 970-974: no bounds check
readUint8(b, off) ==
    [value |-> IF off # NaNOffset /\ off < Len(b) THEN b[off + 1] ELSE undefinedByte,
     offset |-> Advance(off, 1)]

\* lines 984-988: slice clamps to the end of the array, no bounds check
readUint8Array(b, off, length) ==
    [value |-> IF off = NaNOffset \/ length = undefinedByte \/ off >= Len(b)
               THEN <<>>
               ELSE SubSeq(b, off + 1, IF length >= Len(b) - off THEN Len(b) ELSE off + length),
     offset |-> Advance(off, length)]

\* new DataView(buffer, offset, n): ToIndex(NaN) is 0; RangeError when the
\* n bytes do not lie inside the buffer
DataViewAt(off) == IF off = NaNOffset THEN 0 ELSE off
DataViewThrows(b, off, n) == DataViewAt(off) > Len(b) - n

Threw(off) == [threw |-> TRUE, value |-> 0, offset |-> off]
Read(v, off) == [threw |-> FALSE, value |-> v, offset |-> off]

\* lines 990-994
readInt16(b, off) ==
    LET at == DataViewAt(off)
    IN  IF DataViewThrows(b, off, 2) THEN Threw(off)
        ELSE Read(b[at + 1] + 256 * (IF b[at + 2] >= 128 THEN b[at + 2] - 256 ELSE b[at + 2]),
                  Advance(off, 2))

\* lines 996-1000
readInt32(b, off) ==
    LET at == DataViewAt(off)
    IN  IF DataViewThrows(b, off, 4) THEN Threw(off)
        ELSE Read(b[at + 1] + 256 * b[at + 2] + 65536 * b[at + 3]
                  + 16777216 * (IF b[at + 4] >= 128 THEN b[at + 4] - 256 ELSE b[at + 4]),
                  Advance(off, 4))

\* lines 1002-1006
readUint32(b, off) ==
    LET at == DataViewAt(off)
    IN  IF DataViewThrows(b, off, 4) THEN Threw(off)
        ELSE Read(IF b[at + 4] >= 128 THEN Far
                  ELSE b[at + 1] + 256 * b[at + 2] + 65536 * b[at + 3] + 16777216 * b[at + 4],
                  Advance(off, 4))

\* lines 1008-1012, and Number() of the result
readUint64(b, off) ==
    LET low == readUint32(b, off)
        high == readUint32(b, low.offset)
    IN  IF low.threw THEN low
        ELSE IF high.threw THEN high
        ELSE Read(IF high.value = 0 THEN low.value ELSE Far, high.offset)

\* lines 1014-1029: the two words read; the value is the pair of them
readInt64(b, off) ==
    LET low == readUint32(b, off)
        high == readUint32(b, low.offset)
    IN  IF low.threw THEN low
        ELSE IF high.threw THEN high
        ELSE Read([c |-> "int64", low |-> low.value, high |-> high.value], high.offset)

\* lines 1031-1041: the value is the bytes of the float
readFloat32(b, off) ==
    LET at == DataViewAt(off)
    IN  IF DataViewThrows(b, off, 4) THEN Threw(off)
        ELSE Read([c |-> "float32", bytes |-> SubSeq(b, at + 1, at + 4)], Advance(off, 4))
readFloat64(b, off) ==
    LET at == DataViewAt(off)
    IN  IF DataViewThrows(b, off, 8) THEN Threw(off)
        ELSE Read([c |-> "float64", bytes |-> SubSeq(b, at + 1, at + 8)], Advance(off, 8))

\* new TextDecoder().decode(bytes): a byte below 128 is its code unit, a
\* byte that is no UTF-8 sequence is U+FFFD
TextDecode(bytes) == [i \in 1..Len(bytes) |-> IF bytes[i] < 128 THEN bytes[i] ELSE 65533]

\* lines 1043-1049: the bytes up to the first NUL
readArrayAsString(b, off, length) ==
    LET r == readUint8Array(b, off, length)
        nullIndex == FindFirst({i \in 1..Len(r.value) : r.value[i] = 0})
    IN  [value |-> TextDecode(IF nullIndex = 0 THEN r.value
                              ELSE SubSeq(r.value, 1, nullIndex - 1)),
         offset |-> r.offset]

\* header64 ? Number(data.readUint64()) : data.readUint32()
WordLen(wide) == IF wide THEN 8 ELSE 4
ReadWord(b, off, wide) == IF wide THEN readUint64(b, off) ELSE readUint32(b, off)

\* lines 1164-1170: value.indexOf('\x00\x01'), split, reverse, join('::')
IndexOfSentinel(str) ==
    FindFirst({i \in 1..(Len(str) - 1) : str[i] = 0 /\ str[i + 1] = 1})
RECURSIVE Split(_)
Split(str) ==
    LET k == IndexOfSentinel(str)
    IN  IF k = 0 THEN <<str>>
        ELSE <<SubSeq(str, 1, k - 1)>> \o Split(SubSeq(str, k + 2, Len(str)))
RECURSIVE JoinReversed(_)
JoinReversed(parts) ==
    IF Len(parts) = 1 THEN parts[1]
    ELSE JoinReversed(Tail(parts)) \o <<58, 58>> \o parts[1]
QualifiedName(str) ==
    IF IndexOfSentinel(str) # 0 THEN JoinReversed(Split(str)) ELSE str

\* what a property read gives: the error thrown, or the value and the cursor
PropertyThrew(kind) == [threw |-> kind, type |-> 0, value |-> 0, offset |-> 0]
PropertyValue(type, v, off) == [threw |-> "none", type |-> type, value |-> v, offset |-> off]
PropertyOf(type, r) ==
    IF r.threw THEN PropertyThrew("RangeError") ELSE PropertyValue(type, r.value, r.offset)

\* pako's inflate of bytes the model does not decode: it throws, or gives
\* too few bytes for the declared element count, or gives enough
InflateOutcomes == {"throws", "short", "enough"}

\* lines 1181-1199.  size is the byte size of an element, 0 for the boolean
\* reader, which reads unchecked.  The value is the declared element count
\* and the bytes the elements are read from.
readPropertyArray(b, off, type, size, inflated) ==
    LET arrayLength == readUint32(b, off)
        encoding == readUint32(b, arrayLength.offset)
        compressedLength == readUint32(b, encoding.offset)
        arrayData == readUint8Array(b, compressedLength.offset, compressedLength.value)
        value == [c |-> "array", length |-> arrayLength.value, encoding |-> encoding.value,
                  data |-> arrayData.value]
    IN  IF arrayLength.threw \/ encoding.threw \/ compressedLength.threw
        THEN PropertyThrew("RangeError")
        ELSE IF encoding.value = 1 /\ inflated = "throws"
        THEN PropertyThrew("Error")
        ELSE IF encoding.value = 1
        THEN IF inflated = "short" /\ size > 0 /\ arrayLength.value > 0
             THEN PropertyThrew("RangeError")
             ELSE PropertyValue(type, value, arrayData.offset)
        ELSE IF size > 0 /\ arrayLength.value > Len(arrayData.value) \div size
        THEN PropertyThrew("RangeError")
        ELSE PropertyValue(type, value, arrayData.offset)

\* lines 1111-1179.  String.fromCharCode(undefined) is "\0".
readProperty(b, off, inflated) ==
    LET code == readUint8(b, off)
        typeCode == IF code.value = undefinedByte THEN 0 ELSE code.value
        at == code.offset
    IN  CASE typeCode = 89 -> PropertyOf(typeCode, readInt16(b, at))
          [] typeCode = 67 ->
                PropertyValue(typeCode, readUint8(b, at).value # 0, readUint8(b, at).offset)
          [] typeCode = 73 -> PropertyOf(typeCode, readInt32(b, at))
          [] typeCode = 70 -> PropertyOf(typeCode, readFloat32(b, at))
          [] typeCode = 68 -> PropertyOf(typeCode, readFloat64(b, at))
          [] typeCode = 76 -> PropertyOf(typeCode, readInt64(b, at))
          [] typeCode = 102 -> readPropertyArray(b, at, typeCode, 4, inflated)
          [] typeCode = 100 -> readPropertyArray(b, at, typeCode, 8, inflated)
          [] typeCode = 108 -> readPropertyArray(b, at, typeCode, 8, inflated)
          [] typeCode = 105 -> readPropertyArray(b, at, typeCode, 4, inflated)
          [] typeCode = 98 -> readPropertyArray(b, at, typeCode, 0, inflated)
          [] typeCode = 83 ->
                LET length == readUint32(b, at)
                    str == readArrayAsString(b, length.offset, length.value)
                IN  IF length.threw THEN PropertyThrew("RangeError")
                    ELSE PropertyValue(typeCode, QualifiedName(str.value), str.offset)
          [] typeCode = 82 ->
                LET length == readUint32(b, at)
                    bytes == readUint8Array(b, length.offset, length.value)
                IN  IF length.threw THEN PropertyThrew("RangeError")
                    ELSE PropertyValue(typeCode, bytes.value, bytes.offset)
          [] OTHER -> PropertyThrew("Error")

\* the values of endOffset - data.offset > 13 (line 1102); a comparison
\* with NaN is false
MoreThan13(endOffset, off) ==
    IF off = NaNOffset THEN {FALSE}
    ELSE IF endOffset = Far
    THEN IF off < Far - 13 THEN {TRUE} ELSE {TRUE, FALSE}
    ELSE {endOffset - off > 13}

\* push onto a node list of the model
PushNode(list, node) ==
    IF Len(list) < MaxNodes THEN Append(list, node) ELSE Append(Tail(list), node)

MAGIC == <<75, 97, 121, 100, 97, 114, 97, 32, 70, 66, 88, 32, 66, 105, 110, 97, 114, 121,
           32, 32, 0, 26, 0>>

(***************************************************************************)
(* The inputs: files in the layout readNode reads (end offset, property    *)
(* count, property list length, name length, name, properties, children    *)
(* and a null record after them), each also cut off at every length and    *)
(* with the end offset of one record overwritten, and a file with a zero   *)
(* end-offset word between two children.                                   *)
(***************************************************************************)
U32(v) == <<v % 256, (v \div 256) % 256, (v \div 65536) % 256, v \div 16777216>>
EncWord(v, wide) == IF wide THEN U32(v) \o U32(0) ELSE U32(v)
NullRecord(wide) == [i \in 1..(3 * WordLen(wide) + 1) |-> 0]

Property(tag, payload) == [tag |-> tag, payload |-> payload]
StringProperty(bytes) == Property(83, U32(Len(bytes)) \o bytes)
RawProperty(bytes) == Property(82, U32(Len(bytes)) \o bytes)
ArrayProperty(tag, arrayLength, encoding, bytes) ==
    Property(tag, U32(arrayLength) \o U32(encoding) \o U32(Len(bytes)) \o bytes)
FileNode(name, props, nodes) == [name |-> name, props |-> props, nodes |-> nodes]

RECURSIVE PropertyBytes(_)
PropertyBytes(props) ==
    IF props = <<>> THEN <<>>
    ELSE <<Head(props).tag>> \o Head(props).payload \o PropertyBytes(Tail(props))

RECURSIVE NodesLen(_, _)
NodeLen(node, wide) ==
    3 * WordLen(wide) + 1 + Len(node.name) + Len(PropertyBytes(node.props))
    + (IF node.nodes = <<>> THEN 0
       ELSE NodesLen(node.nodes, wide) + Len(NullRecord(wide)))
NodesLen(nodes, wide) ==
    IF nodes = <<>> THEN 0
    ELSE NodeLen(Head(nodes), wide) + NodesLen(Tail(nodes), wide)

\* where the children of a record that starts at start begin
ChildrenStart(node, start, wide) ==
    start + 3 * WordLen(wide) + 1 + Len(node.name) + Len(PropertyBytes(node.props))

RECURSIVE EncNodes(_, _, _)
EncNode(node, start, wide) ==
    EncWord(start + NodeLen(node, wide), wide)
    \o EncWord(Len(node.props), wide)
    \o EncWord(Len(PropertyBytes(node.props)), wide)
    \o <<Len(node.name)>> \o node.name
    \o PropertyBytes(node.props)
    \o (IF node.nodes = <<>> THEN <<>>
        ELSE EncNodes(node.nodes, ChildrenStart(node, start, wide), wide) \o NullRecord(wide))
EncNodes(nodes, start, wide) ==
    IF nodes = <<>> THEN <<>>
    ELSE EncNode(Head(nodes), start, wide)
         \o EncNodes(Tail(nodes), start + NodeLen(Head(nodes), wide), wide)

\* the offsets at which the records of a node list start
RECURSIVE RecordStarts(_, _, _)
RecordStarts(nodes, start, wide) ==
    IF nodes = <<>> THEN {}
    ELSE {start}
         \cup RecordStarts(Head(nodes).nodes, ChildrenStart(Head(nodes), start, wide), wide)
         \cup RecordStarts(Tail(nodes), start + NodeLen(Head(nodes), wide), wide)

FirstRecord == Len(MAGIC) + 4
EncFile(nodes, version, footer) ==
    MAGIC \o U32(version) \o EncNodes(nodes, FirstRecord, version >= 7500)
    \o NullRecord(version >= 7500) \o footer

\* the node lists of the files
Forests ==
    << <<>>,
       <<FileNode(<<65>>, <<>>, <<>>)>>,
       <<FileNode(<<78>>, <<StringProperty(<<97, 0, 1, 98>>)>>, <<>>)>>,
       <<FileNode(<<80>>, <<Property(67, <<1>>), Property(73, <<7, 0, 0, 0>>),
                            RawProperty(<<1, 2>>), StringProperty(<<104, 105>>)>>, <<>>)>>,
       <<FileNode(<<79>>, <<>>, <<FileNode(<<77>>, <<StringProperty(<<120>>)>>, <<>>)>>)>>,
       <<FileNode(<<65>>, <<>>, <<>>), FileNode(<<66>>, <<StringProperty(<<121, 122>>)>>, <<>>)>>,
       <<FileNode(<<85>>, <<Property(90, <<1>>)>>, <<>>)>>,
       <<FileNode(<<86>>, <<Property(89, <<1, 0>>), Property(70, <<0, 0, 0, 0>>),
                            Property(68, <<0, 0, 0, 0, 0, 0, 0, 0>>),
                            Property(76, <<5, 0, 0, 0, 0, 0, 0, 0>>),
                            ArrayProperty(105, 1, 0, <<9, 0, 0, 0>>),
                            ArrayProperty(98, 2, 0, <<1>>),
                            ArrayProperty(102, 1, 1, <<120, 1>>)>>, <<>>)>>,
       <<FileNode(<<79>>, <<>>,
                  <<FileNode(<<77>>, <<>>, <<FileNode(<<76>>, <<>>, <<>>)>>),
                    FileNode(<<75>>, <<>>, <<>>)>>)>> >>
Versions == {7400, 7500}
Footers == {<<>>, <<1, 2, 3>>}

Truncate(bytes, length) == SubSeq(bytes, 1, length)
Overwrite(bytes, at, word) ==
    [i \in 1..Len(bytes) |->
        IF i > at /\ i <= at + Len(word) THEN word[i - at] ELSE bytes[i]]

\* the end offsets written over the one of the record at start: the record's
\* own start, the start of the first record, and the two words that follow
\* these starts
WrongEndOffsets(start) == {start, FirstRecord, start + 4, FirstRecord + 4}

FileVariants(nodes, version, footer) ==
    LET file == EncFile(nodes, version, footer)
        wide == version >= 7500
    IN  {file}
        \cup UNION {{Overwrite(file, start, EncWord(e, wide)) : e \in WrongEndOffsets(start)} :
                      start \in RecordStarts(nodes, FirstRecord, wide)}

\* a file whose node "O" holds the child "A", a zero end-offset word and,
\* right after that word, the record of a node "B"
ZeroWordFile(version) ==
    LET wide == version >= 7500
        O == FileNode(<<79>>, <<>>, <<>>)
        A == FileNode(<<65>>, <<>>, <<>>)
        B == FileNode(<<66>>, <<>>, <<>>)
        startA == ChildrenStart(O, FirstRecord, wide)
        startB == startA + NodeLen(A, wide) + WordLen(wide)
        endO == startB + NodeLen(B, wide) + Len(NullRecord(wide))
    IN  MAGIC \o U32(version)
        \o EncWord(endO, wide) \o EncWord(0, wide) \o EncWord(0, wide) \o <<1>> \o O.name
        \o EncNode(A, startA, wide) \o EncWord(0, wide) \o EncNode(B, startB, wide)
        \o NullRecord(wide) \o NullRecord(wide)

BinaryInputs ==
    {[MAGIC EXCEPT ![1] = 107] \o U32(7400) \o NullRecord(FALSE)}
    \cup {ZeroWordFile(version) : version \in Versions}
    \cup UNION {{Truncate(file, length) : length \in 0..Len(file)} :
                  file \in UNION {FileVariants(Forests[k], version, footer) :
                                    k \in 1..Len(Forests), version \in Versions,
                                    footer \in Footers}}

(***************************************************************************)
(* parseBinary as steps.  A readNode call in progress is a frame           *)
(* [endOffset, numProperties, i, node]; a node is [name, props, nodes, at] *)
(* and a property [type, value, at], at being the offset its record        *)
(* starts at.                                                              *)
(***************************************************************************)
InitFBX ==
    /\ pc = "parseBinary"
    /\ thrown = "none"
    /\ FbxIdle
    /\ AnimIdle
    /\ ApiIdle
    /\ VmdIdle

Throw(kind) ==
    /\ pc' = "threw"
    /\ thrown' = kind
    /\ UNCHANGED <<header64, dataOffset, stack, fbx>>

\* lines 1053-1062, called with one of the inputs
ParseBinary ==
    /\ pc = "parseBinary"
    /\ \E input \in BinaryInputs :
          /\ binary' = input
          /\ IF Len(input) < Len(MAGIC)
             THEN Throw("Error")
             ELSE LET magic == readUint8Array(input, 0, Len(MAGIC))
                      fbxVersion == readUint32(input, magic.offset)
                  IN  IF magic.value # MAGIC THEN Throw("Error")
                      ELSE IF fbxVersion.threw THEN Throw("RangeError")
                      ELSE /\ header64' = (fbxVersion.value >= 7500)
                           /\ dataOffset' = fbxVersion.offset
                           /\ fbx' = <<>>
                           /\ pc' = "readNode"
                           /\ UNCHANGED <<thrown, stack>>
    /\ UNCHANGED <<vmdVars, animVars, apiVars>>

\* lines 1076-1093: the record header and the name; a zero end offset
\* returns null, to parseBinary (line 1066, which returns the forest) or to
\* the child loop of the calling readNode
ReadNode ==
    /\ pc = "readNode"
    /\ \E endOffset \in {ReadWord(binary, dataOffset, header64)} :
       \E numProperties \in {ReadWord(binary, endOffset.offset, header64)} :
       \E propertyListLen \in {ReadWord(binary, numProperties.offset, header64)} :
       \E nameLen \in {readUint8(binary, propertyListLen.offset)} :
       \E name \in {readArrayAsString(binary, nameLen.offset, nameLen.value)} :
           IF endOffset.threw THEN Throw("RangeError")
           ELSE IF endOffset.value = 0
           THEN /\ dataOffset' = endOffset.offset
                /\ pc' = IF stack = <<>> THEN "parsed" ELSE "readNodeBody"
                /\ UNCHANGED <<thrown, header64, stack, fbx>>
           ELSE IF numProperties.threw \/ propertyListLen.threw THEN Throw("RangeError")
           ELSE /\ stack' = Append(stack,
                        [endOffset |-> endOffset.value,
                         numProperties |-> numProperties.value,
                         i |-> 0,
                         node |-> [name |-> name.value, props |-> <<>>, nodes |-> <<>>,
                                   at |-> dataOffset]])
                /\ dataOffset' = name.offset
                /\ pc' = "readNodeBody"
                /\ UNCHANGED <<thrown, header64, fbx>>
    /\ UNCHANGED <<binary, vmdVars, animVars, apiVars>>

\* lines 1095-1098: one iteration of the property loop
ReadProperty ==
    /\ pc = "readNodeBody"
    /\ LET top == stack[Len(stack)]
       IN  /\ top.i < top.numProperties
           /\ \E inflated \in InflateOutcomes :
                \E r \in {readProperty(binary, dataOffset, inflated)} :
                    IF r.threw # "none" THEN Throw(r.threw)
                    ELSE /\ stack' = [stack EXCEPT ![Len(stack)] =
                                [top EXCEPT !.i = @ + 1,
                                            !.node.props = Append(@,
                                                [type |-> r.type, value |-> r.value,
                                                 at |-> dataOffset])]]
                         /\ dataOffset' = r.offset
                         /\ UNCHANGED <<pc, thrown, header64, fbx>>
    /\ UNCHANGED <<binary, vmdVars, animVars, apiVars>>

\* lines 1101-1103: the child loop calls readNode; a call beyond the call
\* stack throws RangeError
EnterChild ==
    /\ pc = "readNodeBody"
    /\ LET top == stack[Len(stack)]
       IN  /\ top.i >= top.numProperties
           /\ TRUE \in MoreThan13(top.endOffset, dataOffset)
           /\ IF Len(stack) >= MaxDepth
              THEN Throw("RangeError")
              ELSE /\ pc' = "readNode"
                   /\ UNCHANGED <<thrown, header64, dataOffset, stack, fbx>>
    /\ UNCHANGED <<binary, vmdVars, animVars, apiVars>>

ReturnNode_KeepCursor ==
    /\ pc = "readNodeBody"
    /\ LET top == stack[Len(stack)]
       IN  /\ top.i >= top.numProperties
           /\ FALSE \in MoreThan13(top.endOffset, dataOffset)
           /\ IF Len(stack) = 1
              THEN /\ fbx' = PushNode(fbx, top.node)
                   /\ stack' = <<>>
                   /\ pc' = "readNode"
              ELSE /\ stack' = [SubSeq(stack, 1, Len(stack) - 1) EXCEPT ![Len(stack) - 1] =
                                    [@ EXCEPT !.node.nodes = PushNode(@, top.node)]]
                   /\ pc' = "readNodeBody"
                   /\ UNCHANGED fbx
    /\ UNCHANGED <<thrown, header64, dataOffset, binary, vmdVars, animVars, apiVars>>

\* lines 1106-1108, and the push of the caller (line 1104, or line 1067 in
\* parseBinary, whose loop then calls readNode again)
ReturnNode ==
    /\ pc = "readNodeBody"
    /\ LET top == stack[Len(stack)]
       IN  /\ top.i >= top.numProperties
           /\ FALSE \in MoreThan13(top.endOffset, dataOffset)
           /\ dataOffset' = top.endOffset
           /\ IF Len(stack) = 1
              THEN /\ fbx' = PushNode(fbx, top.node)
                   /\ stack' = <<>>
                   /\ pc' = "readNode"
              ELSE /\ stack' = [SubSeq(stack, 1, Len(stack) - 1) EXCEPT ![Len(stack) - 1] =
                                    [@ EXCEPT !.node.nodes = PushNode(@, top.node)]]
                   /\ pc' = "readNodeBody"
                   /\ UNCHANGED fbx
    /\ UNCHANGED <<thrown, header64, binary, vmdVars, animVars, apiVars>>

NextFBX ==
    \/ ParseBinary
    \/ ReadNode
    \/ ReadProperty
    \/ EnterChild
    \/ ReturnNode

SpecFBX == InitFBX /\ [][NextFBX]_vars

\* the JavaScript run-to-completion of the call: a step that can be taken
\* is taken
FairSpecFBX == SpecFBX /\ WF_vars(NextFBX)

(***************************************************************************)
(* Reading the parse back.                                                 *)
(***************************************************************************)
Parsed == pc = "parsed"
Failed == pc = "threw"

\* the name length byte of the record of a node, and where its name starts
NameLenAt(node) == node.at + 3 * WordLen(header64)
\* the bytes of the name of a node's record all lie in the input
NameInInput(node) ==
    /\ NameLenAt(node) < Len(binary)
    /\ NameLenAt(node) + 1 + binary[NameLenAt(node) + 1] <= Len(binary)

\* the declared length of the payload of an 'S' or 'R' property, the
\* payload as it lies in the input, and whether all of it does
PayloadLen(prop) == readUint32(binary, prop.at + 1).value
PayloadInInput(prop) == PayloadLen(prop) <= Len(binary) - (prop.at + 5)
PayloadOf(prop) == SubSeq(binary, prop.at + 6, prop.at + 5 + PayloadLen(prop))

NodeInInput(node) ==
    /\ NameInInput(node)
    /\ \A j \in 1..Len(node.props) :
          node.props[j].type \in {83, 82} => PayloadInInput(node.props[j])

RECURSIVE NodesInInput(_)
NodesInInput(nodes) ==
    \A k \in 1..Len(nodes) : NodeInInput(nodes[k]) /\ NodesInInput(nodes[k].nodes)

(***************************************************************************)
(* C7.  As claimed: for every input parseBinary terminates, it returns the *)
(* forest or throws; the child loop of readNode ends also when a child's   *)
(* end offset is at or before the offset the child starts at.              *)
(***************************************************************************)
C7_ParseBinaryTerminates == <>(Parsed \/ Failed)

(***************************************************************************)
(* C8.  As claimed: parseBinary never returns a forest with a node whose   *)
(* name, string property or raw property was read from an input cut off    *)
(* inside it: when it returns, the declared bytes of every name and of     *)
(* every 'S' and 'R' payload of the forest lie inside the input.           *)
(***************************************************************************)
C8_CutOffInputFails == Parsed => NodesInInput(fbx)

(***************************************************************************)
(* C9.  As claimed: an 'S' property whose bytes are A, 0x00, 0x01, B is    *)
(* read as the string B ++ "::" ++ A.                                      *)
(***************************************************************************)
SentinelFlipped(prop) ==
    (/\ prop.type = 83
     /\ PayloadInInput(prop)
     /\ IndexOfSentinel(PayloadOf(prop)) # 0)
    => LET payload == PayloadOf(prop)
           k == IndexOfSentinel(payload)
       IN  prop.value = SubSeq(payload, k + 2, Len(payload)) \o <<58, 58>>
                        \o SubSeq(payload, 1, k - 1)

RECURSIVE SentinelsFlipped(_)
SentinelsFlipped(nodes) ==
    \A k \in 1..Len(nodes) :
        /\ \A j \in 1..Len(nodes[k].props) : SentinelFlipped(nodes[k].props[j])
        /\ SentinelsFlipped(nodes[k].nodes)

C9_SentinelStringFlipped ==
    /\ SentinelsFlipped(fbx)
    /\ SentinelsFlipped([k \in 1..Len(stack) |-> stack[k].node])

(***************************************************************************)
(* C10.  As claimed: when parseBinary returns, the cursor equals the       *)
(* length of the input.                                                    *)
(***************************************************************************)
C10_CursorAtInputLength == Parsed => dataOffset = Len(binary)

(* C10, amended: when parseBinary returns, the cursor stands right after   *)
(* the zero end-offset word that ended the top-level list: one word (4     *)
(* bytes, 8 with 64-bit headers) past the end offset of the last top-level *)
(* node, or past offset 27 when the forest is empty.  It is at most the    *)
(* input length; the rest of the null record and what follows it are not   *)
(* read.                                                                   *)
LastTopLevelEnd ==
    IF fbx = <<>> THEN FirstRecord
    ELSE ReadWord(binary, fbx[Len(fbx)].at, header64).value

C10_CursorAfterTerminator ==
    Parsed =>
        /\ dataOffset = LastTopLevelEnd + WordLen(header64)
        /\ dataOffset <= Len(binary)
        /\ ReadWord(binary, LastTopLevelEnd, header64).value = 0

C10_Witness ==
    /\ Parsed
    /\ Len(fbx) = 1
    /\ Len(fbx[1].nodes) = 2
    /\ ~header64
    /\ dataOffset = Len(binary) - 9

(***************************************************************************)
(* C24.  As claimed: inside readNode a record whose end offset is zero     *)
(* ends the child list, so that no record that follows it within the       *)
(* parent's range becomes a child: every child but the first starts where  *)
(* the child before it ended, no zero end offset having been read between  *)
(* the two.                                                                *)
(***************************************************************************)
EndOffsetOf(node) == ReadWord(binary, node.at, header64).value

RECURSIVE ChildrenAdjoin(_)
ChildrenAdjoin(nodes) ==
    \A k \in 1..Len(nodes) :
        /\ \A j \in 1..(Len(nodes[k].nodes) - 1) :
              nodes[k].nodes[j + 1].at = EndOffsetOf(nodes[k].nodes[j])
        /\ ChildrenAdjoin(nodes[k].nodes)

C24_ZeroEndOffsetEndsChildren ==
    /\ ChildrenAdjoin(fbx)
    /\ ChildrenAdjoin([k \in 1..Len(stack) |-> stack[k].node])

(***************************************************************************)
(* The rotation assembler of lib/fbx.ts: interpolateValue,                 *)
(* interpolateRotations, generateQuaternions, slerp, quaternionToEuler.    *)
(*                                                                         *)
(* A time of the extractor is an integer count of tenths of a microsecond; *)
(* a time pushed into a track is a float [c, n, d] in that unit, class     *)
(* "below" being the double next below n/d.  An angle in degrees is a      *)
(* float; an angle in radians is held as a multiple of pi.  Math.cos and   *)
(* Math.sin are tracked at the multiples of pi/2, where the model takes    *)
(* their real values (the doubles differ from them by less than 1e-15);    *)
(* every other finite result is the class "slerp", a finite value that is  *)
(* not tracked.                                                            *)
(***************************************************************************)
TimeUnitsPerMicro == 10
TimeUnitsPerSecond == TimeUnitsPerMicro * MicrosPerSecond

Below(t) == [c |-> "below", n |-> t, d |-> 1]

\* the global isNaN on a number
isNaN(f) == f.c = "nan"

\* double arithmetic: NaN absorbs, zero times a finite value is zero, a
\* finite value that is not tracked makes the result not tracked
FNeg(a) ==
    IF a.c = "fin" THEN Rat(-a.n, a.d) ELSE a
\* the product of two rationals, the common factors taken out first
RatTimes(a, b) ==
    LET g == Gcd(Abs(a.n), b.d)
        h == Gcd(Abs(b.n), a.d)
    IN  Rat((a.n \div g) * (b.n \div h), (a.d \div h) * (b.d \div g))
FMul(a, b) ==
    IF a.c = "nan" \/ b.c = "nan" THEN NaN
    ELSE IF a = Fin(0) \/ b = Fin(0) THEN Fin(0)
    ELSE IF a.c = "fin" /\ b.c = "fin" THEN RatTimes(a, b)
    ELSE SlerpValue
FAdd(a, b) ==
    IF a.c = "nan" \/ b.c = "nan" THEN NaN
    ELSE IF a.c = "fin" /\ b.c = "fin" THEN RatAdd(a, b)
    ELSE SlerpValue
FSub(a, b) == FAdd(a, FNeg(b))
FAbs(a) == IF a.c = "fin" THEN RatAbs(a) ELSE a

\* a >= b on doubles: "no" when either is NaN, "unknown" when one of them
\* is not tracked
FGeq(a, b) ==
    IF a.c = "nan" \/ b.c = "nan" THEN "no"
    ELSE IF a.c = "fin" /\ b.c = "fin" THEN (IF RatLess(a, b) THEN "no" ELSE "yes")
    ELSE "unknown"
FLess(a, b) ==
    IF a.c = "nan" \/ b.c = "nan" THEN "no"
    ELSE IF a.c = "fin" /\ b.c = "fin" THEN (IF RatLess(a, b) THEN "yes" ELSE "no")
    ELSE "unknown"

NaNQuat == Quat(NaN, NaN, NaN, NaN)
FQuatNeg(q) == Quat(FNeg(q.x), FNeg(q.y), FNeg(q.z), FNeg(q.w))
FQuatDot(a, b) ==
    FAdd(FAdd(FAdd(FMul(a.x, b.x), FMul(a.y, b.y)), FMul(a.z, b.z)), FMul(a.w, b.w))
\* a quaternion of which only the exact zeros of both arguments are tracked
Untracked(a, b) ==
    LET u(p, q) == IF p = Fin(0) /\ q = Fin(0) THEN Fin(0) ELSE SlerpValue
    IN  Quat(u(a.x, b.x), u(a.y, b.y), u(a.z, b.z), u(a.w, b.w))

\* fbx.ts:1203, on a KeyTime counted in units of 46186158 ticks (1 ms)
convertFBXTimeToSeconds(time) == time * (TimeUnitsPerSecond \div 1000)

\* fbx.ts:1207, the result in multiples of pi
degToRad(degrees) ==
    IF degrees.c = "fin" THEN RatTimes(degrees, Rat(1, 180)) ELSE degrees

\* Math.cos and Math.sin of a multiple of pi
QuarterTurns(a) == ((2 * a.n) \div a.d) % 4
cos(a) ==
    IF a.c = "nan" THEN NaN
    ELSE IF a.c # "fin" \/ (2 * a.n) % a.d # 0 THEN SlerpValue
    ELSE Fin(<<1, 0, -1, 0>>[QuarterTurns(a) + 1])
sin(a) ==
    IF a.c = "nan" THEN NaN
    ELSE IF a.c # "fin" \/ (2 * a.n) % a.d # 0 THEN SlerpValue
    ELSE Fin(<<0, 1, 0, -1>>[QuarterTurns(a) + 1])

\* Math.asin and Math.atan2, in multiples of pi; atan2(0, x) for x < 0 is
\* pi or -pi by the sign of the zero, which is not tracked
asin(a) ==
    IF a.c = "nan" THEN NaN
    ELSE IF a = Fin(0) THEN Fin(0)
    ELSE IF a = Fin(1) THEN Rat(1, 2)
    ELSE IF a = Fin(-1) THEN Rat(-1, 2)
    ELSE SlerpValue
atan2(y, x) ==
    IF y.c = "nan" \/ x.c = "nan" THEN NaN
    ELSE IF y.c # "fin" \/ x.c # "fin" THEN SlerpValue
    ELSE IF y = Fin(0) THEN (IF RatLess(x, Fin(0)) THEN SlerpValue ELSE Fin(0))
    ELSE IF x = Fin(0) THEN (IF RatLess(y, Fin(0)) THEN Rat(-1, 2) ELSE Rat(1, 2))
    ELSE SlerpValue

Half(a) == FMul(a, Rat(1, 2))

\* fbx.ts:1213-1227
eulerToQuaternionZXY(z, x, y) ==
    LET cz == cos(Half(z))
        cx == cos(Half(x))
        cy == cos(Half(y))
        sz == sin(Half(z))
        sx == sin(Half(x))
        sy == sin(Half(y))
    IN  Quat(FSub(FMul(FMul(sx, cy), cz), FMul(FMul(cx, sy), sz)),
             FAdd(FMul(FMul(cx, sy), cz), FMul(FMul(sx, cy), sz)),
             FSub(FMul(FMul(cx, cy), sz), FMul(FMul(sx, sy), cz)),
             FAdd(FMul(FMul(cx, cy), cz), FMul(FMul(sx, sy), sz)))

\* fbx.ts:1230-1234
eulerToQuaternionByOrder(x, y, z, order) ==
    IF order # "ZXY" THEN IdentityQuat ELSE eulerToQuaternionZXY(z, x, y)

FLerp(a, b, t) == FAdd(a, FMul(FSub(b, a), t))

\* the value of a one-element set: {e(v) : v \in {a}} computes a once, where
\* a definition in LET is computed again at each of its uses
The(S) == CHOOSE v \in S : TRUE

\* fbx.ts:1237-1281
slerp(q1, q2, t) ==
    The({IF dot.c = "nan" THEN NaNQuat
         ELSE IF dot.c # "fin" THEN Untracked(q1, q2)
         ELSE The({IF RatLess(Rat(9995, 10000), RatAbs(dot))
                   THEN The({IF FQuatDot(r, r) \in {Fin(1), Fin(0)} THEN r
                             ELSE Untracked(r, r) :
                             r \in {Quat(FLerp(q1.x, q2n.x, t), FLerp(q1.y, q2n.y, t),
                                         FLerp(q1.z, q2n.z, t), FLerp(q1.w, q2n.w, t))}})
                   ELSE Untracked(q1, q2n) :
                   q2n \in {IF RatLess(dot, Fin(0)) THEN FQuatNeg(q2) ELSE q2}}) :
         dot \in {FQuatDot(q1, q2)}})

\* fbx.ts:1283-1322, the angles in multiples of pi
quaternionToEuler(q) ==
    LET two == Fin(2)
        sinX == FMul(two, FAdd(FMul(q.y, q.z), FMul(q.w, q.x)))
        gimbal == FGeq(FAbs(sinX), Rat(9999, 10000))
    IN  IF gimbal = "yes"
        THEN [x |-> IF RatLess(sinX, Fin(0)) THEN Rat(-1, 2) ELSE Rat(1, 2),
              y |-> atan2(FMul(two, FAdd(FMul(q.x, q.y), FMul(q.w, q.z))),
                          FSub(Fin(1), FMul(two, FAdd(FMul(q.y, q.y), FMul(q.z, q.z))))),
              z |-> Fin(0)]
        ELSE IF gimbal = "unknown"
        THEN [x |-> SlerpValue, y |-> SlerpValue, z |-> SlerpValue]
        ELSE [x |-> asin(sinX),
              y |-> atan2(FNeg(FMul(two, FSub(FMul(q.x, q.z), FMul(q.w, q.y)))),
                          FSub(Fin(1), FMul(two, FAdd(FMul(q.x, q.x), FMul(q.y, q.y))))),
              z |-> atan2(FNeg(FMul(two, FSub(FMul(q.x, q.y), FMul(q.w, q.z)))),
                          FSub(Fin(1), FMul(two, FAdd(FMul(q.x, q.x), FMul(q.z, q.z)))))]

\* fbx.ts:857 (and 743): Math.round(t * 1000000) / 1000000
roundTime(t) == ((2 * t + TimeUnitsPerMicro) \div (2 * TimeUnitsPerMicro)) * TimeUnitsPerMicro

\* fbx.ts:768-785
interpolateValue(times, values, targetTime) ==
    IF Len(times) = 0 \/ Len(values) = 0 THEN Fin(0)
    ELSE IF Len(times) # Len(values) THEN Fin(0)
    ELSE IF targetTime <= times[1] THEN values[1]
    ELSE IF targetTime >= times[Len(times)] THEN values[Len(values)]
    ELSE LET i == FindFirst({j \in 1..(Len(times) - 1) :
                                targetTime >= times[j] /\ targetTime <= times[j + 1]})
         IN  IF i = 0 THEN values[Len(values)]
             ELSE FLerp(values[i], values[i + 1],
                        Rat(targetTime - times[i], times[i + 1] - times[i]))

\* fbx.ts:858-862 (and 744-748): the rounded times of the three curves, sorted
MergedTimes(curvex, curvey, curvez) ==
    SortedSeq({roundTime(t) : t \in Range(curvex.times) \cup Range(curvey.times)
                                    \cup Range(curvez.times)})

\* fbx.ts:867-873: the three axis values at each merged time
InterpolatedValues(curvex, curvey, curvez, mergedTimes) ==
    [i \in 1..Len(mergedTimes) |->
        <<interpolateValue(curvex.times, curvex.values, mergedTimes[i]),
          interpolateValue(curvey.times, curvey.values, mergedTimes[i]),
          interpolateValue(curvez.times, curvez.values, mergedTimes[i])>>]

\* Math.ceil(maxAbsSpan / 180) for a rational maxAbsSpan
CeilDiv180(a) == (a.n + 180 * a.d - 1) \div (180 * a.d)

RatMax(a, b) == IF RatLess(a, b) THEN b ELSE a

\* fbx.ts:932: the passes of "for (let t = step; t < 1; t += step)" with
\* step = 1 / numSubIntervals.  In doubles the sum of numSubIntervals steps
\* is below 1 for 6, 7 and 10 sub-intervals (of those up to 12), which gives
\* the loop one more pass, at t = 1 - 2^-53.
RoundsBelowOne == {6, 7, 10}
SubSteps(numSubIntervals) ==
    IF numSubIntervals \in RoundsBelowOne THEN numSubIntervals ELSE numSubIntervals - 1

\* fbx.ts:936: initialTime + t * timeSpan.  For t = 1 - 2^-53 the double is
\* the one below mergedTimes[i] when initialTime is 0, and mergedTimes[i]
\* itself when initialTime >= timeSpan (whole seconds).
SubTime(initialTime, timeSpan, k, numSubIntervals) ==
    IF k < numSubIntervals
    THEN RatAdd(Fin(initialTime), RatTimes(Rat(k, numSubIntervals), Fin(timeSpan)))
    ELSE IF initialTime >= timeSpan THEN Fin(initialTime + timeSpan)
    ELSE Below(initialTime + timeSpan)

\* fbx.ts:932-941: the keys pushed between two merged times, from pass k on
RECURSIVE SubKeys(_, _, _, _, _, _)
SubKeys(Q1, Q2, initialTime, timeSpan, numSubIntervals, k) ==
    IF k > SubSteps(numSubIntervals) THEN [times |-> <<>>, values |-> <<>>]
    ELSE The({[times |-> <<SubTime(initialTime, timeSpan, k, numSubIntervals)>> \o rest.times,
               values |-> <<E.x, E.y, E.z>> \o rest.values] :
              E \in {The({quaternionToEuler(q) :
                          q \in {slerp(Q1, Q2, IF k < numSubIntervals
                                               THEN Rat(k, numSubIntervals) ELSE Fin(1))}})},
              rest \in {SubKeys(Q1, Q2, initialTime, timeSpan, numSubIntervals, k + 1)}})

\* fbx.ts:885-953: what one pass of the loop over the merged times pushes
FrameKeys(mergedTimes, interpolatedValues, i, eulerOrder) ==
    LET initialValue == interpolatedValues[i - 1]
        currentValue == interpolatedValues[i]
        final == [times |-> <<Fin(mergedTimes[i])>>,
                  values |-> <<degToRad(currentValue[1]), degToRad(currentValue[2]),
                               degToRad(currentValue[3])>>]
    IN  IF \E a \in 1..3 : isNaN(initialValue[a]) \/ isNaN(currentValue[a])
        THEN [times |-> <<>>, values |-> <<>>]
        ELSE
            LET absoluteSpan == [a \in 1..3 |-> FAbs(FSub(currentValue[a], initialValue[a]))]
            IN  IF \E a \in 1..3 : ~RatLess(absoluteSpan[a], Fin(180))
                THEN
                    LET maxAbsSpan == RatMax(absoluteSpan[1], RatMax(absoluteSpan[2], absoluteSpan[3]))
                        numSubIntervals == CeilDiv180(maxAbsSpan)
                    IN  The({The({[times |-> sub.times \o final.times,
                                   values |-> sub.values \o final.values] :
                                  sub \in {SubKeys(E1, IF FLess(FQuatDot(E1, E2), Fin(0)) = "yes"
                                                       THEN FQuatNeg(E2) ELSE E2,
                                                   mergedTimes[i - 1],
                                                   mergedTimes[i] - mergedTimes[i - 1],
                                                   numSubIntervals, 1)}}) :
                             E1 \in {eulerToQuaternionByOrder(degToRad(initialValue[1]),
                                        degToRad(initialValue[2]), degToRad(initialValue[3]),
                                        eulerOrder)},
                             E2 \in {eulerToQuaternionByOrder(degToRad(currentValue[1]),
                                        degToRad(currentValue[2]), degToRad(currentValue[3]),
                                        eulerOrder)}})
                ELSE final

\* fbx.ts:876-953: the first frame, then the passes of the loop from i on
RECURSIVE PushFrames(_, _, _, _)
PushFrames(mergedTimes, interpolatedValues, i, eulerOrder) ==
    IF i > Len(mergedTimes) THEN [times |-> <<>>, values |-> <<>>]
    ELSE The({[times |-> keys.times \o rest.times, values |-> keys.values \o rest.values] :
              keys \in {IF i = 1
                        THEN [times |-> <<Fin(mergedTimes[1])>>,
                              values |-> <<degToRad(interpolatedValues[1][1]),
                                           degToRad(interpolatedValues[1][2]),
                                           degToRad(interpolatedValues[1][3])>>]
                        ELSE FrameKeys(mergedTimes, interpolatedValues, i, eulerOrder)},
              rest \in {PushFrames(mergedTimes, interpolatedValues, i + 1, eulerOrder)}})

\* fbx.ts:852-957
interpolateRotations(curvex, curvey, curvez, eulerOrder) ==
    The({The({PushFrames(mergedTimes, interpolatedValues, 1, eulerOrder) :
              interpolatedValues \in {InterpolatedValues(curvex, curvey, curvez, mergedTimes)}}) :
         mergedTimes \in {MergedTimes(curvex, curvey, curvez)}})

\* fbx.ts:831-838: the unrolling against the quaternion pushed before.  The
\* sign of a dot product that is not tracked is not known, and so is the
\* sign of the quaternion pushed.
Unroll(prevQuat, quat) ==
    LET less == FLess(FQuatDot(prevQuat, quat), Fin(0))
    IN  IF less = "yes" THEN FQuatNeg(quat)
        ELSE IF less = "no" THEN quat
        ELSE Untracked(quat, quat)

\* fbx.ts:823-842: the loop over the values, i the 1-based index of xRad
RECURSIVE PushQuats(_, _, _, _)
PushQuats(quats, values, i, eulerOrder) ==
    IF i > Len(values) THEN quats
    ELSE The({The({PushQuats(pushed, values, i + 3, eulerOrder) :
                   pushed \in {Append(quats, IF i > 1 THEN Unroll(quats[Len(quats)], quat)
                                             ELSE quat)}}) :
              quat \in {eulerToQuaternionByOrder(values[i], values[i + 1], values[i + 2],
                                                 eulerOrder)}})

\* fbx.ts:787-846
generateQuaternions(curves, eulerOrder) ==
    The({IF Len(interpolated.values) % 3 # 0 THEN [times |-> <<>>, quats |-> <<>>]
         ELSE IF Len(interpolated.times) # Len(interpolated.values) \div 3
         THEN [times |-> <<>>, quats |-> <<>>]
         ELSE [times |-> interpolated.times,
               quats |-> PushQuats(<<>>, interpolated.values, 1, eulerOrder)] :
         interpolated \in {interpolateRotations(curves.x, curves.y, curves.z, eulerOrder)}})

\* fbx.ts:740-765: the position track of three usable translation curves
\* (the empty sequence stands for null)
PositionKeys(curves, modelName) ==
    IF Len(curves.x.values) = 0 \/ Len(curves.y.values) = 0 \/ Len(curves.z.values) = 0
    THEN <<>>
    ELSE The({IF Len(times) = 0 THEN <<>>
              ELSE <<[name |-> modelName, original_name |-> modelName, times |-> times,
                      positions |-> InterpolatedValues(curves.x, curves.y, curves.z, times)]>> :
              times \in {MergedTimes(curves.x, curves.y, curves.z)}})


(***************************************************************************)
(* generateQuaternions and the position branch of parsePositionCurveNode   *)
(* on three axis curves.                                                   *)
(***************************************************************************)
MaxCurveKeys == 3

\* the key times of the X curve: whole seconds, and times less than a
\* microsecond apart that round to one time
CurveTimes ==
    {{0}, {0, TimeUnitsPerSecond}, {TimeUnitsPerSecond, 2 * TimeUnitsPerSecond},
     {0, TimeUnitsPerSecond, 2 * TimeUnitsPerSecond},
     {1, 4}, {1, 4, TimeUnitsPerSecond}, {0, 6, 14}}
Degrees == {Fin(0), Fin(360), Fin(1080), NaN}
Curve(times, values) == [times |-> times, values |-> values]
ZeroCurve(T) == Curve(SortedSeq(T), [i \in 1..Cardinality(T) |-> Fin(0)])
SecondCurveTimes == {{0}, {0, TimeUnitsPerSecond}, {2 * TimeUnitsPerSecond}}

InitRotations ==
    /\ pc = "generateQuaternions"
    /\ thrown = "none"
    /\ FbxIdle
    /\ AnimIdle
    /\ ApiIdle
    /\ VmdIdle

\* parseCurveNode's call, fbx.ts:639-644, on the curves of one curve node
GenerateQuaternions ==
    /\ pc = "generateQuaternions"
    /\ \E T \in CurveTimes :
          /\ Cardinality(T) <= MaxCurveKeys
          /\ \E values \in [1..Cardinality(T) -> Degrees] :
             \E Ty \in SecondCurveTimes :
                 axisCurves' = [x |-> Curve(SortedSeq(T), values),
                                y |-> ZeroCurve(Ty),
                                z |-> ZeroCurve({0})]
    /\ generated' = generateQuaternions(axisCurves', "ZXY")
    /\ pc' = "generated"
    /\ UNCHANGED <<thrown, reader, animationStacks, clips, positioned, RETARGET_TRANSFORMS, boneTrack,
                   retargetedTrack, vmdVars, fbxVars, apiVars>>

\* parsePositionCurveNode, fbx.ts:740-765, on the same three curves
PositionCurves ==
    /\ pc = "generated"
    /\ positioned' = PositionKeys(axisCurves, <<"H">>)
    /\ pc' = "positioned"
    /\ UNCHANGED <<thrown, reader, animationStacks, clips, axisCurves, generated,
                   RETARGET_TRANSFORMS, boneTrack,
                   retargetedTrack, vmdVars, fbxVars, apiVars>>

NextRotations ==
    \/ GenerateQuaternions
    \/ PositionCurves

SpecRotations == InitRotations /\ [][NextRotations]_vars

\* a < b on the times of a track
TimeLess(a, b) ==
    \/ a.n * b.d < b.n * a.d
    \/ a.n * b.d = b.n * a.d /\ a.c = "below" /\ b.c = "fin"

\* C14: in every rotation track and every position track emitted, the times
\* are strictly increasing and there is exactly one quaternion (one position
\* triple) per time, subdivision keys and NaN axis values included.
C14_TimesIncreaseOneValueEach ==
    /\ pc \in {"generated", "positioned"} =>
          /\ Len(generated.times) = Len(generated.quats)
          /\ \A i \in 1..(Len(generated.times) - 1) :
                TimeLess(generated.times[i], generated.times[i + 1])
    /\ pc = "positioned" =>
          \A p \in 1..Len(positioned) :
              /\ Len(positioned[p].times) = Len(positioned[p].positions)
              /\ \A i \in 1..(Len(positioned[p].times) - 1) :
                    positioned[p].times[i] < positioned[p].times[i + 1]

\* C15: in every rotation track emitted, each pair of adjacent quaternions
\* has a non-negative dot product.
C15_AdjacentDotNonNegative ==
    pc \in {"generated", "positioned"} =>
        \A i \in 1..(Len(generated.quats) - 1) :
            FGeq(FQuatDot(generated.quats[i], generated.quats[i + 1]), Fin(0)) # "no"

\* the indices of the keys of a curve whose times round to the time rounded
Colliding(curve, rounded) == {i \in 1..Len(curve.times) : roundTime(curve.times[i]) = rounded}

\* the value interpolateRotations took for the X axis at a merged time, in degrees
ValueUsed(curves, rounded) == interpolateValue(curves.x.times, curves.x.values, rounded)

\* C16: when two key times of one axis curve round to the same microsecond,
\* the merged timeline holds one key at the rounded time and the value used
\* for that axis there is the value of the later of the colliding keys.
C16_LastWriterWins ==
    pc \in {"generated", "positioned"} =>
        \A rounded \in {roundTime(t) : t \in Range(axisCurves.x.times)} :
            Cardinality(Colliding(axisCurves.x, rounded)) >= 2 =>
                /\ LET merged == MergedTimes(axisCurves.x, axisCurves.y, axisCurves.z)
                   IN  Cardinality({i \in 1..Len(merged) : merged[i] = rounded}) = 1
                /\ ValueUsed(axisCurves, rounded)
                       = axisCurves.x.values[Max(Colliding(axisCurves.x, rounded))]

SweepCurves ==
    [x |-> Curve(<<0, TimeUnitsPerSecond>>, <<Fin(0), Fin(360)>>),
     y |-> ZeroCurve({0, TimeUnitsPerSecond}),
     z |-> ZeroCurve({0})]

\* C17: X from 0 degrees at t = 0 to 360 degrees at t = 1, Y and Z at 0: the
\* rotation track has three keys, at 0, 0.5 and 1, and the middle quaternion
\* is (1, 0, 0, 0) or its negation.
C17_HalfTurnInTheMiddle ==
    (pc \in {"generated", "positioned"} /\ axisCurves = SweepCurves) =>
        /\ generated.times = <<Fin(0), Fin(TimeUnitsPerSecond \div 2), Fin(TimeUnitsPerSecond)>>
        /\ Len(generated.quats) = 3
        /\ generated.quats[2] \in {Quat(Fin(1), Fin(0), Fin(0), Fin(0)),
                                   Quat(Fin(-1), Fin(0), Fin(0), Fin(0))}

\* retarget.ts:4-57, a destination name written as its UTF-16 code units in
\* hexadecimal (u5DE6u8155 is U+5DE6 U+8155)
BONE_MAP ==
    [Hips |-> "u30BBu30F3u30BFu30FC",
     Spine |-> "u8170",
     Spine1 |-> "u4E0Au534Au8EAB",
     Spine2 |-> "u4E0Au534Au8EABu0032",
     Neck |-> "u9996",
     Head |-> "u982D",
     RightShoulder |-> "u53F3u80A9",

     RightArm |-> "u53F3u8155",
     RightForeArm |-> "u53F3u3072u3058",
     RightHand |-> "u53F3u624Bu9996",
     LeftShoulder |-> "u5DE6u80A9",
     LeftArm |-> "u5DE6u8155",
     LeftForeArm |-> "u5DE6u3072u3058",
     LeftHand |-> "u5DE6u624Bu9996",
     RightUpLeg |-> "u53F3u8DB3",
     RightLeg |-> "u53F3u3072u3056",
     RightFoot |-> "u53F3u8DB3u9996",
     RightToeBase |-> "u53F3u8DB3u5148u0045u0058",
     LeftUpLeg |-> "u5DE6u8DB3",
     LeftLeg |-> "u5DE6u3072u3056",
     LeftFoot |-> "u5DE6u8DB3u9996",
     LeftToeBase |-> "u5DE6u8DB3u5148u0045u0058",
     RightHandThumb1 |-> "u53F3u89AAu6307uFF11",
     RightHandThumb2 |-> "u53F3u89AAu6307uFF12",
     RightHandThumb3 |-> "u53F3u89AAu6307uFF13",
     RightHandIndex1 |-> "u53F3u4EBAu6307uFF11",
     RightHandIndex2 |-> "u53F3u4EBAu6307uFF12",
     RightHandIndex3 |-> "u53F3u4EBAu6307uFF13",
     RightHandMiddle1 |-> "u53F3u4E2Du6307uFF11",
     RightHandMiddle2 |-> "u53F3u4E2Du6307uFF12",
     RightHandMiddle3 |-> "u53F3u4E2Du6307uFF13",
     RightHandRing1 |-> "u53F3u85ACu6307uFF11",
     RightHandRing2 |-> "u53F3u85ACu6307uFF12",
     RightHandRing3 |-> "u53F3u85ACu6307uFF13",
     RightHandPinky1 |-> "u53F3u5C0Fu6307uFF11",
     RightHandPinky2 |-> "u53F3u5C0Fu6307uFF12",
     RightHandPinky3 |-> "u53F3u5C0Fu6307uFF13",
     LeftHandThumb1 |-> "u5DE6u89AAu6307uFF11",
     LeftHandThumb2 |-> "u5DE6u89AAu6307uFF12",
     LeftHandThumb3 |-> "u5DE6u89AAu6307uFF13",
     LeftHandIndex1 |-> "u5DE6u4EBAu6307uFF11",
     LeftHandIndex2 |-> "u5DE6u4EBAu6307uFF12",
     LeftHandIndex3 |-> "u5DE6u4EBAu6307uFF13",
     LeftHandMiddle1 |-> "u5DE6u4E2Du6307uFF11",
     LeftHandMiddle2 |-> "u5DE6u4E2Du6307uFF12",
     LeftHandMiddle3 |-> "u5DE6u4E2Du6307uFF13",
     LeftHandRing1 |-> "u5DE6u85ACu6307uFF11",
     LeftHandRing2 |-> "u5DE6u85ACu6307uFF12",
     LeftHandRing3 |-> "u5DE6u85ACu6307uFF13",
     LeftHandPinky1 |-> "u5DE6u5C0Fu6307uFF11",
     LeftHandPinky2 |-> "u5DE6u5C0Fu6307uFF12",
     LeftHandPinky3 |-> "u5DE6u5C0Fu6307uFF13"]
\* retarget.ts:60-113, the decimal literals as fractions
MIXAMO_MATRIX_LOCAL ==
    [Hips |-> Quat(Rat(13, 2000), Fin(0), Fin(0), Rat(49999, 50000)),
     Spine |-> Quat(Rat(-737, 10000), Fin(0), Fin(0), Rat(9973, 10000)),
     Spine1 |-> Quat(Rat(-737, 10000), Fin(0), Fin(0), Rat(9973, 10000)),
     Spine2 |-> Quat(Rat(-609, 10000), Fin(0), Fin(0), Rat(9981, 10000)),
     Neck |-> Quat(Rat(-609, 10000), Fin(0), Fin(0), Rat(9981, 10000)),
     Head |-> Quat(Rat(-609, 10000), Fin(0), Fin(0), Rat(9981, 10000)),
     RightShoulder |-> Quat(Rat(459, 1000), Rat(-5379, 10000), Rat(5599, 10000), Rat(2159, 5000)),
     RightArm |-> Quat(Rat(1, 2), Rat(-1, 2), Rat(1, 2), Rat(1, 2)),
     RightForeArm |-> Quat(Rat(1, 2), Rat(-1, 2), Rat(1, 2), Rat(1, 2)),
     RightHand |-> Quat(Rat(1, 2), Rat(-1, 2), Rat(1, 2), Rat(1, 2)),
     LeftShoulder |-> Quat(Rat(-459, 1000), Rat(-5379, 10000), Rat(5599, 10000), Rat(-2159, 5000)),
     LeftArm |-> Quat(Rat(1, 2), Rat(1, 2), Rat(-1, 2), Rat(1, 2)),
     LeftForeArm |-> Quat(Rat(1, 2), Rat(1, 2), Rat(-1, 2), Rat(1, 2)),
     LeftHand |-> Quat(Rat(1, 2), Rat(1, 2), Rat(-1, 2), Rat(1, 2)),
     RightUpLeg |-> Quat(Fin(0), Rat(39, 10000), Rat(99999, 100000), Fin(0)),
     RightLeg |-> Quat(Fin(0), Rat(-171, 5000), Rat(49971, 50000), Fin(0)),
     RightFoot |-> Quat(Fin(0), Rat(4291, 10000), Rat(45163, 50000), Fin(0)),
     RightToeBase |-> Quat(Fin(0), Rat(7071, 10000), Rat(7071, 10000), Fin(0)),
     LeftUpLeg |-> Quat(Fin(0), Rat(39, 10000), Rat(99999, 100000), Fin(0)),
     LeftLeg |-> Quat(Fin(0), Rat(-171, 5000), Rat(49971, 50000), Fin(0)),
     LeftFoot |-> Quat(Fin(0), Rat(4291, 10000), Rat(45163, 50000), Fin(0)),
     LeftToeBase |-> Quat(Fin(0), Rat(7071, 10000), Rat(7071, 10000), Fin(0)),
     RightHandThumb1 |-> Quat(Rat(1, 2), Rat(-1, 2), Rat(1, 2), Rat(1, 2)),
     RightHandThumb2 |-> Quat(Rat(1, 2), Rat(-1, 2), Rat(1, 2), Rat(1, 2)),
     RightHandThumb3 |-> Quat(Rat(1, 2), Rat(-1, 2), Rat(1, 2), Rat(1, 2)),
     RightHandIndex1 |-> Quat(Rat(1, 2), Rat(-1, 2), Rat(1, 2), Rat(1, 2)),
     RightHandIndex2 |-> Quat(Rat(1, 2), Rat(-1, 2), Rat(1, 2), Rat(1, 2)),
     RightHandIndex3 |-> Quat(Rat(1, 2), Rat(-1, 2), Rat(1, 2), Rat(1, 2)),
     RightHandMiddle1 |-> Quat(Rat(1, 2), Rat(-1, 2), Rat(1, 2), Rat(1, 2)),
     RightHandMiddle2 |-> Quat(Rat(1, 2), Rat(-1, 2), Rat(1, 2), Rat(1, 2)),
     RightHandMiddle3 |-> Quat(Rat(1, 2), Rat(-1, 2), Rat(1, 2), Rat(1, 2)),
     RightHandRing1 |-> Quat(Rat(1, 2), Rat(-1, 2), Rat(1, 2), Rat(1, 2)),
     RightHandRing2 |-> Quat(Rat(1, 2), Rat(-1, 2), Rat(1, 2), Rat(1, 2)),
     RightHandRing3 |-> Quat(Rat(1, 2), Rat(-1, 2), Rat(1, 2), Rat(1, 2)),
     RightHandPinky1 |-> Quat(Rat(1, 2), Rat(-1, 2), Rat(1, 2), Rat(1, 2)),
     RightHandPinky2 |-> Quat(Rat(1, 2), Rat(-1, 2), Rat(1, 2), Rat(1, 2)),
     RightHandPinky3 |-> Quat(Rat(1, 2), Rat(-1, 2), Rat(1, 2), Rat(1, 2)),
     LeftHandThumb1 |-> Quat(Rat(1, 2), Rat(1, 2), Rat(-1, 2), Rat(1, 2)),
     LeftHandThumb2 |-> Quat(Rat(1, 2), Rat(1, 2), Rat(-1, 2), Rat(1, 2)),
     LeftHandThumb3 |-> Quat(Rat(1, 2), Rat(1, 2), Rat(-1, 2), Rat(1, 2)),
     LeftHandIndex1 |-> Quat(Rat(1, 2), Rat(1, 2), Rat(-1, 2), Rat(1, 2)),
     LeftHandIndex2 |-> Quat(Rat(1, 2), Rat(1, 2), Rat(-1, 2), Rat(1, 2)),
     LeftHandIndex3 |-> Quat(Rat(1, 2), Rat(1, 2), Rat(-1, 2), Rat(1, 2)),
     LeftHandMiddle1 |-> Quat(Rat(1, 2), Rat(1, 2), Rat(-1, 2), Rat(1, 2)),
     LeftHandMiddle2 |-> Quat(Rat(1, 2), Rat(1, 2), Rat(-1, 2), Rat(1, 2)),
     LeftHandMiddle3 |-> Quat(Rat(1, 2), Rat(1, 2), Rat(-1, 2), Rat(1, 2)),
     LeftHandRing1 |-> Quat(Rat(1, 2), Rat(1, 2), Rat(-1, 2), Rat(1, 2)),
     LeftHandRing2 |-> Quat(Rat(1, 2), Rat(1, 2), Rat(-1, 2), Rat(1, 2)),
     LeftHandRing3 |-> Quat(Rat(1, 2), Rat(1, 2), Rat(-1, 2), Rat(1, 2)),
     LeftHandPinky1 |-> Quat(Rat(1, 2), Rat(1, 2), Rat(-1, 2), Rat(1, 2)),
     LeftHandPinky2 |-> Quat(Rat(1, 2), Rat(1, 2), Rat(-1, 2), Rat(1, 2)),
     LeftHandPinky3 |-> Quat(Rat(1, 2), Rat(1, 2), Rat(-1, 2), Rat(1, 2))]

\* retarget.ts:115-147
ROTATE_WAB_L_SET ==
    {"LeftArm", "LeftForeArm",
     "LeftHandThumb1", "LeftHandThumb2", "LeftHandThumb3",
     "LeftHandIndex1", "LeftHandIndex2", "LeftHandIndex3",
     "LeftHandMiddle1", "LeftHandMiddle2", "LeftHandMiddle3",
     "LeftHandRing1", "LeftHandRing2", "LeftHandRing3",
     "LeftHandPinky1", "LeftHandPinky2", "LeftHandPinky3"}
ROTATE_WAB_R_SET ==
    {"RightArm", "RightForeArm",
     "RightHandThumb1", "RightHandThumb2", "RightHandThumb3",
     "RightHandIndex1", "RightHandIndex2", "RightHandIndex3",
     "RightHandMiddle1", "RightHandMiddle2", "RightHandMiddle3",
     "RightHandRing1", "RightHandRing2", "RightHandRing3",
     "RightHandPinky1", "RightHandPinky2", "RightHandPinky3"}
\* the set with the upper arm in the place of the forearm
ROTATE_WBA_L_SET_WithLeftArm ==
    (ROTATE_WAB_L_SET \ {"LeftForeArm"})
ROTATE_WBA_L_SET ==
    {"LeftForeArm",
     "LeftHandThumb1", "LeftHandThumb2", "LeftHandThumb3",
     "LeftHandIndex1", "LeftHandIndex2", "LeftHandIndex3",
     "LeftHandMiddle1", "LeftHandMiddle2", "LeftHandMiddle3",
     "LeftHandRing1", "LeftHandRing2", "LeftHandRing3",
     "LeftHandPinky1", "LeftHandPinky2", "LeftHandPinky3"}
ROTATE_WBA_R_SET ==
    {"RightForeArm",
     "RightHandThumb1", "RightHandThumb2", "RightHandThumb3",
     "RightHandIndex1", "RightHandIndex2", "RightHandIndex3",
     "RightHandMiddle1", "RightHandMiddle2", "RightHandMiddle3",
     "RightHandRing1", "RightHandRing2", "RightHandRing3",
     "RightHandPinky1", "RightHandPinky2", "RightHandPinky3"}

\* retarget.ts:152-153: Quat.fromAxisAngle((0, 0, 1), +-35 degrees), that is
\* (0, 0, +-sin(17.5 degrees), cos(17.5 degrees))
Q_ARM_L == Quat(Fin(0), Fin(0), SlerpValue, SlerpValue)
Q_ARM_R == Quat(Fin(0), Fin(0), SlerpValue, SlerpValue)

\* Quat.conjugate and Quat.multiply (the Hamilton product a * b)
conjugate(q) == Quat(FNeg(q.x), FNeg(q.y), FNeg(q.z), q.w)
multiply(a, b) ==
    Quat(FSub(FAdd(FAdd(FMul(a.w, b.x), FMul(a.x, b.w)), FMul(a.y, b.z)), FMul(a.z, b.y)),
         FAdd(FAdd(FSub(FMul(a.w, b.y), FMul(a.x, b.z)), FMul(a.y, b.w)), FMul(a.z, b.x)),
         FAdd(FSub(FAdd(FMul(a.w, b.z), FMul(a.x, b.y)), FMul(a.y, b.x)), FMul(a.z, b.w)),
         FSub(FSub(FSub(FMul(a.w, b.w), FMul(a.x, b.x)), FMul(a.y, b.y)), FMul(a.z, b.z)))

\* retarget.ts:162-189: the table, each transform as the factors multiplied
computeRetargetTransforms ==
    [mixamoName \in {k \in DOMAIN BONE_MAP : k \in DOMAIN MIXAMO_MATRIX_LOCAL} |->
        [q_l |-> IF mixamoName \in ROTATE_WBA_L_SET THEN <<"Q_ARM_R", "q_a">>
                 ELSE IF mixamoName \in ROTATE_WBA_R_SET THEN <<"Q_ARM_L", "q_a">>
                 ELSE <<"q_a">>,
         q_r |-> IF mixamoName \in ROTATE_WAB_L_SET THEN <<"q_ai", "Q_ARM_L">>
                 ELSE IF mixamoName \in ROTATE_WAB_R_SET THEN <<"q_ai", "Q_ARM_R">>
                 ELSE <<"q_ai">>]]

\* the quaternion a factor of the table stands for
Factor(factor, mixamoName) ==
    IF factor = "q_a" THEN MIXAMO_MATRIX_LOCAL[mixamoName]
    ELSE IF factor = "q_ai" THEN conjugate(MIXAMO_MATRIX_LOCAL[mixamoName])
    ELSE IF factor = "Q_ARM_L" THEN Q_ARM_L
    ELSE Q_ARM_R
TransformQuat(factors, mixamoName) ==
    IF Len(factors) = 1 THEN Factor(factors[1], mixamoName)
    ELSE multiply(Factor(factors[1], mixamoName), Factor(factors[2], mixamoName))

\* the properties every object inherits from Object.prototype: BONE_MAP and
\* RETARGET_TRANSFORMS are object literals, and obj[key] finds them
ObjectPrototypeKeys ==
    {"constructor", "__proto__", "hasOwnProperty", "isPrototypeOf", "propertyIsEnumerable",
     "toLocaleString", "toString", "valueOf", "__defineGetter__", "__defineSetter__",
     "__lookupGetter__", "__lookupSetter__"}
HasOwn(object, name) == Len(name) = 1 /\ name[1] \in DOMAIN object
Inherits(name) == Len(name) = 1 /\ name[1] \in ObjectPrototypeKeys
\* what stands for the member of Object.prototype found under a key (a
\* function or an object, not a string)
Inherited(name) == <<"Object.prototype">> \o name

\* retarget.ts:249-254; the regular expression /^mixamorig:(.+)$/ needs at
\* least one character after the prefix
mapBoneName(name) ==
    LET match == Len(name) >= 2 /\ name[1] = "mixamorig:"
        mixamoName == IF match THEN Tail(name) ELSE name
    IN  [mixamoName |-> mixamoName,
         mmdName |-> IF HasOwn(BONE_MAP, mixamoName) THEN <<BONE_MAP[mixamoName[1]]>>
                     ELSE IF Inherits(mixamoName) THEN Inherited(mixamoName)
                     ELSE mixamoName]

\* retarget.ts:258: RETARGET_TRANSFORMS[mixamoName]
TransformKind(table, mixamoName) ==
    IF HasOwn(table, mixamoName) THEN "transform"
    ELSE IF Inherits(mixamoName) THEN "inherited"
    ELSE "undefined"

\* the flip with the sign of z kept
FlipOnlyW(q) == Quat(q.x, q.y, q.z, FNeg(q.w))

\* retarget.ts:266 and 270
Flip(q) == Quat(q.x, q.y, FNeg(q.z), FNeg(q.w))

\* retarget.ts:264-271: the callback of track.quats.map
RetargetQuat(table, mixamoName, q) ==
    IF TransformKind(table, mixamoName) = "undefined" THEN Flip(q)
    ELSE Flip(multiply(multiply(TransformQuat(table[mixamoName[1]].q_l, mixamoName[1]), q),
                       TransformQuat(table[mixamoName[1]].q_r, mixamoName[1])))

\* retarget.ts:256-273: transform.q_l is undefined when the transform is a
\* member of Object.prototype, and the call of multiply on it throws
RetargetThrows(table, track) ==
    /\ TransformKind(table, mapBoneName(track.name).mixamoName) = "inherited"
    /\ Len(track.quats) > 0
retargetBoneTrack(table, track) ==
    [name |-> mapBoneName(track.name).mmdName,
     originalName |-> track.original_name,
     times |-> track.times,
     quats |-> [i \in 1..Len(track.quats) |->
                   RetargetQuat(table, mapBoneName(track.name).mixamoName, track.quats[i])]]

(***************************************************************************)
(* The module's load and retargetBoneTrack on one track.                   *)
(***************************************************************************)
MaxQuats == 2

TrackNames ==
    {<<"LeftArm">>, <<"mixamorig:", "LeftArm">>, <<"mixamorig:", "RightForeArm">>,
     <<"LeftHand">>, <<"Foo">>, <<"mixamorig:", "Foo">>, <<"mixamorig:">>,
     <<"MIXAMORIG:", "LeftArm">>, <<"mixamorig:", "mixamorig:", "LeftArm">>,
     <<"constructor">>, <<"mixamorig:", "toString">>}
QuatInputs ==
    {IdentityQuat, Quat(Rat(1, 2), Rat(-1, 2), Rat(1, 2), Rat(1, 2)),
     Quat(Fin(0), NaN, Fin(-1), Fin(0))}

InitRetarget ==
    /\ pc = "load"
    /\ thrown = "none"
    /\ FbxIdle
    /\ AnimIdle
    /\ ApiIdle
    /\ VmdIdle

\* retarget.ts:191, at the module's load
ComputeRetargetTransforms ==
    /\ pc = "load"
    /\ RETARGET_TRANSFORMS' = computeRetargetTransforms
    /\ pc' = "loaded"
    /\ UNCHANGED <<thrown, reader, animationStacks, clips, axisCurves, generated, positioned,
                   boneTrack, retargetedTrack, vmdVars, fbxVars, apiVars>>

\* the call of retargetBoneTrack on a track of the extractor, whose name and
\* original_name are both the model's name (fbx.ts:646-648)
RetargetBoneTrack ==
    /\ pc = "loaded"
    /\ \E name \in TrackNames :
       \E n \in 0..MaxQuats :
       \E quats \in [1..n -> QuatInputs] :
          boneTrack' = [name |-> name, original_name |-> name,
                        times |-> [i \in 1..n |-> i - 1], quats |-> quats]
    /\ IF RetargetThrows(RETARGET_TRANSFORMS, boneTrack')
       THEN /\ thrown' = "TypeError"
            /\ pc' = "thrown"
            /\ UNCHANGED retargetedTrack
       ELSE /\ retargetedTrack' = retargetBoneTrack(RETARGET_TRANSFORMS, boneTrack')
            /\ pc' = "retargeted"
            /\ UNCHANGED thrown
    /\ UNCHANGED <<reader, animationStacks, clips, axisCurves, generated, positioned,
                   RETARGET_TRANSFORMS, vmdVars, fbxVars, apiVars>>

(***************************************************************************)
(* retargetPositionTrack, retarget.ts:275-306.                             *)
(***************************************************************************)
\* retarget.ts:216-217; 1 / 12.5 and -8.3 as exact fractions (the doubles
\* differ from them by a rounding)
POSITION_SCALE == Rat(2, 25)
POSITION_OFFSET_Y == Rat(-83, 10)

\* the rotation of every bone taken as the identity
LeftQuat_Identity(table, mixamoName) == IdentityQuat

\* retarget.ts:278: transform?.q_l ?? Quat.identity(); a member of
\* Object.prototype has no q_l
LeftQuat(table, mixamoName) ==
    IF TransformKind(table, mixamoName) = "transform"
    THEN TransformQuat(table[mixamoName[1]].q_l, mixamoName[1])
    ELSE IdentityQuat

\* retarget.ts:288-303: the position rotated by q_l, scaled, moved and the
\* sign of z changed
RotatePosition(q, p) ==
    The({Vec3(FMul(FAdd(FAdd(p[1], FMul(q.w, t.x)),
                             FSub(FMul(q.y, t.z), FMul(q.z, t.y))), POSITION_SCALE),
                   FAdd(FMul(FAdd(FAdd(p[2], FMul(q.w, t.y)),
                                  FSub(FMul(q.z, t.x), FMul(q.x, t.z))), POSITION_SCALE),
                        POSITION_OFFSET_Y),
                   FNeg(FMul(FAdd(FAdd(p[3], FMul(q.w, t.z)),
                                  FSub(FMul(q.x, t.y), FMul(q.y, t.x))), POSITION_SCALE))) :
              t \in {Vec3(FMul(Fin(2), FSub(FMul(q.y, p[3]), FMul(q.z, p[2]))),
                          FMul(Fin(2), FSub(FMul(q.z, p[1]), FMul(q.x, p[3]))),
                          FMul(Fin(2), FSub(FMul(q.x, p[2]), FMul(q.y, p[1]))))}})

\* retarget.ts:284-304: the callback of track.positions.map
RetargetPosition(q, p) ==
    IF Len(p) # 3 THEN ZeroVec3 ELSE RotatePosition(q, p)

\* retarget.ts:275-306
retargetPositionTrack(table, track) ==
    The({[name |-> mapBoneName(track.name).mmdName,
          originalName |-> track.original_name,
          times |-> track.times,
          positions |-> [i \in 1..Len(track.positions) |->
                            RetargetPosition(q_l, track.positions[i])]] :
         q_l \in {LeftQuat(table, mapBoneName(track.name).mixamoName)}})

PositionTrackNames ==
    {<<"Hips">>, <<"mixamorig:", "Hips">>, <<"Foo">>, <<"mixamorig:", "Foo">>,
     <<"LeftForeArm">>, <<"constructor">>}
PositionInputs ==
    {<<Fin(0), Fin(100), Fin(0)>>, <<Fin(0), Fin(0), Fin(100)>>, <<Fin(0), Fin(0), Fin(0)>>,
     <<Fin(0), NaN, Fin(0)>>, <<Fin(0), Fin(100)>>}

\* the call of retargetPositionTrack on a track of the extractor
\* (retarget.ts:244)
RetargetPositionTrack ==
    /\ pc = "loaded"
    /\ \E name \in PositionTrackNames :
       \E n \in 0..MaxQuats :
       \E positions \in [1..n -> PositionInputs] :
          positionTrack' = [name |-> name, original_name |-> name,
                            times |-> [i \in 1..n |-> i - 1], positions |-> positions]
    /\ retargetedPositionTrack' = retargetPositionTrack(RETARGET_TRANSFORMS, positionTrack')
    /\ pc' = "positionsRetargeted"
    /\ UNCHANGED <<thrown, animVars, vmdVars, fbxVars, queryVars, int64Vars, loaderVars,
                   playerVars, hierarchyVars>>

NextRetarget ==
    \/ ComputeRetargetTransforms
    \/ RetargetBoneTrack
    \/ RetargetPositionTrack

SpecRetarget == InitRetarget /\ [][NextRetarget]_vars

(***************************************************************************)
(* The hips position sample (0, 100, 0).                                   *)
(***************************************************************************)
HipsSample == <<Fin(0), Fin(100), Fin(0)>>
IsHips(name) == name \in {<<"Hips">>, <<"mixamorig:", "Hips">>}
PositionsRetargeted == pc = "positionsRetargeted"

\* C21, as stated: retargeting the hips position (0, 100, 0) gives
\* (0, 100/12.5 - 8.3, 0) = (0, -0.3, 0), the rotation being the identity.
C21_HipsIdentity ==
    (PositionsRetargeted /\ IsHips(positionTrack.name)) =>
        \A i \in 1..Len(positionTrack.positions) :
            positionTrack.positions[i] = HipsSample =>
                retargetedPositionTrack.positions[i] = Vec3(Fin(0), Rat(-3, 10), Fin(0))

\* C21, amended: the hips position (0, 100, 0) is rotated by the hips entry
\* q_a = (0.0065, 0, 0, 0.99998) of the table, which gives
\* (0, 99.99155/12.5 - 8.3, -1.299974/12.5) = (0, -0.300676, -0.10399792);
\* the identity is used, and (0, -0.3, 0) returned, for the bones that
\* have no transform of their own.
C21_HipsRotatedByRestQuat ==
    PositionsRetargeted =>
        \A i \in 1..Len(positionTrack.positions) :
            positionTrack.positions[i] = HipsSample =>
                /\ IsHips(positionTrack.name) =>
                       /\ retargetedPositionTrack.name = <<BONE_MAP.Hips>>
                       /\ retargetedPositionTrack.positions[i] =
                              Vec3(Fin(0), Rat(-75169, 250000), Rat(-649987, 6250000))
                /\ ~HasOwn(RETARGET_TRANSFORMS, mapBoneName(positionTrack.name).mixamoName) =>
                       retargetedPositionTrack.positions[i] = Vec3(Fin(0), Rat(-3, 10), Fin(0))

C21_Witness ==
    /\ PositionsRetargeted
    /\ positionTrack.name = <<"mixamorig:", "Hips">>
    /\ Len(positionTrack.positions) = 2
    /\ positionTrack.positions[2] = HipsSample
    /\ retargetedPositionTrack.positions[2].z = Rat(-649987, 6250000)

\* the bone-name map has no entry for the name, its prefix taken off
Unmapped(name) == ~HasOwn(BONE_MAP, mapBoneName(name).mixamoName)

\* C18: for a source bone name without an entry in the bone-name map, with or
\* without the prefix "mixamorig:", the retargeted track has the source name
\* unchanged and its quaternions are the input's with only the flip
\* (x, y, z, w) -> (x, y, -z, -w) applied.
C18_UnmappedPassThrough ==
    (pc \in {"retargeted", "thrown"} /\ Unmapped(boneTrack.name)) =>
        /\ pc = "retargeted"
        /\ retargetedTrack.name = boneTrack.name
        /\ Len(retargetedTrack.quats) = Len(boneTrack.quats)
        /\ \A i \in 1..Len(boneTrack.quats) :
              retargetedTrack.quats[i] =
                  Quat(boneTrack.quats[i].x, boneTrack.quats[i].y,
                       FNeg(boneTrack.quats[i].z), FNeg(boneTrack.quats[i].w))

LeftFingerBones ==
    {"LeftHandThumb1", "LeftHandThumb2", "LeftHandThumb3",
     "LeftHandIndex1", "LeftHandIndex2", "LeftHandIndex3",
     "LeftHandMiddle1", "LeftHandMiddle2", "LeftHandMiddle3",
     "LeftHandRing1", "LeftHandRing2", "LeftHandRing3",
     "LeftHandPinky1", "LeftHandPinky2", "LeftHandPinky3"}
RightFingerBones ==
    {"RightHandThumb1", "RightHandThumb2", "RightHandThumb3",
     "RightHandIndex1", "RightHandIndex2", "RightHandIndex3",
     "RightHandMiddle1", "RightHandMiddle2", "RightHandMiddle3",
     "RightHandRing1", "RightHandRing2", "RightHandRing3",
     "RightHandPinky1", "RightHandPinky2", "RightHandPinky3"}

\* the table holds a transform for each bone of the map
TableComputed == pc # "load" /\ DOMAIN RETARGET_TRANSFORMS = DOMAIN BONE_MAP

\* C19 as stated: q_l = Q_R * q_a for LeftArm and the left fingers (Q_L * q_a
\* for RightArm and the right fingers), q_r = q_a^-1 * Q_L for LeftForeArm and
\* the left fingers (q_a^-1 * Q_R for RightForeArm and the right fingers),
\* every other mapped bone has q_l = q_a and q_r = q_a^-1.
C19_TableAsStated ==
    TableComputed =>
        \A k \in DOMAIN BONE_MAP :
            /\ k \in {"LeftArm"} \cup LeftFingerBones =>
                  RETARGET_TRANSFORMS[k].q_l = <<"Q_ARM_R", "q_a">>
            /\ k \in {"RightArm"} \cup RightFingerBones =>
                  RETARGET_TRANSFORMS[k].q_l = <<"Q_ARM_L", "q_a">>
            /\ k \in {"LeftForeArm"} \cup LeftFingerBones =>
                  RETARGET_TRANSFORMS[k].q_r = <<"q_ai", "Q_ARM_L">>
            /\ k \in {"RightForeArm"} \cup RightFingerBones =>
                  RETARGET_TRANSFORMS[k].q_r = <<"q_ai", "Q_ARM_R">>
            /\ k \notin {"LeftArm", "RightArm", "LeftForeArm", "RightForeArm"}
                        \cup LeftFingerBones \cup RightFingerBones =>
                  RETARGET_TRANSFORMS[k] = [q_l |-> <<"q_a">>, q_r |-> <<"q_ai">>]

\* C19: in the table, q_l = Q_R * q_a for LeftForeArm and the left fingers
\* (Q_L * q_a for RightForeArm and the right fingers) and q_l = q_a for every
\* other mapped bone; q_r = conj(q_a) * Q_L for LeftArm, LeftForeArm and the
\* left fingers (conj(q_a) * Q_R for RightArm, RightForeArm and the right
\* fingers) and q_r = conj(q_a) for every other mapped bone.
C19_TableByMembership ==
    /\ pc # "load" => DOMAIN RETARGET_TRANSFORMS = DOMAIN BONE_MAP
    /\ TableComputed =>
        \A k \in DOMAIN BONE_MAP :
            /\ RETARGET_TRANSFORMS[k].q_l =
                  IF k \in {"LeftForeArm"} \cup LeftFingerBones THEN <<"Q_ARM_R", "q_a">>
                  ELSE IF k \in {"RightForeArm"} \cup RightFingerBones THEN <<"Q_ARM_L", "q_a">>
                  ELSE <<"q_a">>
            /\ RETARGET_TRANSFORMS[k].q_r =
                  IF k \in {"LeftArm", "LeftForeArm"} \cup LeftFingerBones
                  THEN <<"q_ai", "Q_ARM_L">>
                  ELSE IF k \in {"RightArm", "RightForeArm"} \cup RightFingerBones
                  THEN <<"q_ai", "Q_ARM_R">>
                  ELSE <<"q_ai">>

C19_Witness ==
    /\ TableComputed
    /\ RETARGET_TRANSFORMS["LeftArm"] = [q_l |-> <<"q_a">>, q_r |-> <<"q_ai", "Q_ARM_L">>]
    /\ RETARGET_TRANSFORMS["LeftForeArm"].q_l = <<"Q_ARM_R", "q_a">>

\* the table holds no transform for the name, nor does Object.prototype
NoTransform(name) ==
    TransformKind(RETARGET_TRANSFORMS, mapBoneName(name).mixamoName) = "undefined"

\* C20: for a bone without a retarget transform, retargetBoneTrack maps each
\* quaternion (x, y, z, w) to (x, y, -z, -w), and the flip applied to its
\* result gives the input quaternion again.
C20_FlipAndFlipBack ==
    (pc = "retargeted" /\ NoTransform(boneTrack.name)) =>
        /\ Len(retargetedTrack.quats) = Len(boneTrack.quats)
        /\ \A i \in 1..Len(boneTrack.quats) :
              /\ retargetedTrack.quats[i].x = boneTrack.quats[i].x
              /\ retargetedTrack.quats[i].y = boneTrack.quats[i].y
              /\ retargetedTrack.quats[i].z = FNeg(boneTrack.quats[i].z)
              /\ retargetedTrack.quats[i].w = FNeg(boneTrack.quats[i].w)
              /\ Flip(retargetedTrack.quats[i]) = boneTrack.quats[i]

C20_Witness ==
    /\ pc = "retargeted"
    /\ NoTransform(boneTrack.name)
    /\ Len(boneTrack.quats) = MaxQuats
    /\ boneTrack.quats[1] = IdentityQuat
    /\ retargetedTrack.quats[1] = Quat(Fin(0), Fin(0), Fin(0), Fin(-1))
    /\ retargetedTrack.quats[2].y = NaN

(***************************************************************************)
(* The extractor of lib/fbx.ts: FBXReaderNode and AnimationParser.         *)
(*                                                                         *)
(* A node is [name, props, nodes]; a property is [t, n, s, a] with t the   *)
(* typeof of the value ("number", "string", "number[]", "undefined"), n    *)
(* the number, s the string as the sequence of its characters and a the    *)
(* array.  A value that may be undefined or null is a sequence of at most  *)
(* one element.  The rest pose and the hierarchy of a clip, which are read *)
(* from the Model nodes after the tracks are made, are not in the model.   *)
(* root is the node of this.reader, whose children are the file's nodes.   *)
(***************************************************************************)
NumberProp(n) == [t |-> "number", n |-> n, s |-> <<>>, a |-> <<>>]
StringProp(s) == [t |-> "string", n |-> 0, s |-> s, a |-> <<>>]
NumbersProp(a) == [t |-> "number[]", n |-> 0, s |-> <<>>, a |-> a]
UndefinedProp == [t |-> "undefined", n |-> 0, s |-> <<>>, a |-> <<>>]
FBXNode(name, props, nodes) == [name |-> name, props |-> props, nodes |-> nodes]

\* this.fbxNode.props[index], the index counted from 0
PropAt(fbxNode, index) ==
    IF index + 1 <= Len(fbxNode.props) THEN fbxNode.props[index + 1] ELSE UndefinedProp

\* a === b on two property values; an array is equal to itself only
StrictEquals(p, q) ==
    /\ p.t = q.t
    /\ p.t # "number[]"
    /\ p.t = "number" => p.n = q.n
    /\ p.t = "string" => p.s = q.s

\* fbx.ts:63-91, after the arguments are told apart: name and propFilter are
\* <<>> for undefined; a property filter is the sequence of its entries
nodeFilter(name, propFilter, child) ==
    IF Len(propFilter) > 0
    THEN /\ Len(name) > 0 => child.name = name[1]
         /\ \A k \in 1..Len(propFilter[1]) :
               StrictEquals(PropAt(child, propFilter[1][k].index), propFilter[1][k].value)
    ELSE Len(name) > 0 /\ child.name = name[1]

\* the indices of the children that pass the filter, in order
Matching(fbxNode, name, propFilter) ==
    SortedSeq({i \in 1..Len(fbxNode.nodes) : nodeFilter(name, propFilter, fbxNode.nodes[i])})

\* fbx.ts:100-104
node(fbxNode, name, propFilter) ==
    The({IF Len(ix) = 0 THEN <<>> ELSE <<fbxNode.nodes[ix[1]]>> :
         ix \in {Matching(fbxNode, name, propFilter)}})

\* fbx.ts:113-116
nodes(fbxNode, name, propFilter) ==
    The({[k \in 1..Len(ix) |-> fbxNode.nodes[ix[k]]] :
         ix \in {Matching(fbxNode, name, propFilter)}})

\* fbx.ts:131-147; type "" stands for no type given
prop(fbxNode, index, type) ==
    IF type = "" \/ PropAt(fbxNode, index).t = type THEN PropAt(fbxNode, index)
    ELSE UndefinedProp

\* the property filter { 0: id }
ById(id) == <<<<[index |-> 0, value |-> id]>>>>

\* the records of kind OO among those with c.prop(index, 'number') === id
ConnectionsWith_OnlyOO(root, index, id) ==
    LET connections == node(root, <<"Connections">>, <<>>)
    IN  IF Len(connections) = 0 THEN <<>>
        ELSE SelectSeq(connections[1].nodes,
                       LAMBDA c : /\ c.name = "C"
                                  /\ prop(c, 0, "string").s = <<"O", "O">>
                                  /\ StrictEquals(prop(c, index, "number"), id))

\* the records c of the Connections node with c.prop(index, 'number') === id
ConnectionsWith(root, index, id) ==
    The({IF Len(connections) = 0 THEN <<>>
         ELSE The({[k \in 1..Len(ix) |-> connections[1].nodes[ix[k]]] :
                   ix \in {SortedSeq({i \in 1..Len(connections[1].nodes) :
                              /\ connections[1].nodes[i].name = "C"
                              /\ StrictEquals(prop(connections[1].nodes[i], index, "number"),
                                              id)})}}) :
         connections \in {node(root, <<"Connections">>, <<>>)}})

\* s.endsWith(suffix)
EndsWith(s, suffix) ==
    /\ Len(s) >= Len(suffix)
    /\ SubSeq(s, Len(s) - Len(suffix) + 1, Len(s)) = suffix

\* fbx.ts:625-633 (and 731-737): the axis a relationship string names
AxisOf(relationship) ==
    IF relationship = <<"X">> \/ EndsWith(relationship, <<"|", "X">>) THEN "x"
    ELSE IF relationship = <<"Y">> \/ EndsWith(relationship, <<"|", "Y">>) THEN "y"
    ELSE IF relationship = <<"Z">> \/ EndsWith(relationship, <<"|", "Z">>) THEN "z"
    ELSE "none"

\* fbx.ts:588-603 (and 693-703): the key times of an AnimationCurve
KeyTimes(curve) ==
    The({The({IF timeArray.t = "undefined" THEN <<>>
              ELSE [i \in 1..Len(timeArray.a) |-> convertFBXTimeToSeconds(timeArray.a[i])] :
              timeArray \in {IF Len(keyTime) > 0 THEN prop(keyTime[1], 0, "number[]")
                             ELSE prop(curve, 4, "number[]")}}) :
         keyTime \in {node(curve, <<"KeyTime">>, <<>>)}})

\* fbx.ts:605-617, and 705-726 for a translation curve, which also reads a
\* KeyValueDouble child
KeyValues(curve, translation) ==
    The({The({IF valueArray.t = "undefined" THEN <<>> ELSE valueArray.a :
              valueArray \in {IF Len(keyValueFloat) > 0 THEN prop(keyValueFloat[1], 0, "number[]")
                              ELSE IF translation /\ Len(keyValueDouble) > 0
                              THEN prop(keyValueDouble[1], 0, "number[]")
                              ELSE prop(curve, 5, "number[]")}}) :
         keyValueFloat \in {node(curve, <<"KeyValueFloat">>, <<>>)},
         keyValueDouble \in {node(curve, <<"KeyValueDouble">>, <<>>)}})

\* fbx.ts:569-634 (and 676-738): one pass of the loop over the connections
\* into the curve node; curves holds <<>> for an axis not assigned
AssignCurve(root, conn, curves, translation) ==
    The({IF curveId.t = "undefined" \/ Len(objects) = 0 THEN curves
         ELSE The({IF Len(curve) = 0 THEN curves
                   ELSE The({IF Len(times) = 0 \/ Len(values) = 0 \/ Len(times) # Len(values)
                             THEN curves
                             ELSE IF AxisOf(relationship) = "x"
                             THEN [curves EXCEPT !.x = <<Curve(times, values)>>]
                             ELSE IF AxisOf(relationship) = "y"
                             THEN [curves EXCEPT !.y = <<Curve(times, values)>>]
                             ELSE IF AxisOf(relationship) = "z"
                             THEN [curves EXCEPT !.z = <<Curve(times, values)>>]
                             ELSE curves :
                             times \in {KeyTimes(curve[1])},
                             values \in {KeyValues(curve[1], translation)}}) :
                   curve \in {node(objects[1], <<"AnimationCurve">>, ById(curveId))}}) :
         relationship \in {prop(conn, 3, "string").s},
         curveId \in {prop(conn, 1, "number")},
         objects \in {node(root, <<"Objects">>, <<>>)}})

RECURSIVE AssignCurves(_, _, _, _, _)
AssignCurves(root, curveConns, i, curves, translation) ==
    IF i > Len(curveConns) THEN curves
    ELSE The({AssignCurves(root, curveConns, i + 1, assigned, translation) :
              assigned \in {AssignCurve(root, curveConns[i], curves, translation)}})

\* the curves of a curve node, with a curve of one key, 0 at time 0, for each
\* axis of a rotation curve node that is not assigned
AxisCurves_ZeroForMissing(root, curveNode, translation) ==
    LET curves == IF Len(node(root, <<"Connections">>, <<>>)) = 0
                     \/ prop(curveNode, 0, "number").t = "undefined"
                  THEN [x |-> <<>>, y |-> <<>>, z |-> <<>>]
                  ELSE AssignCurves(root,
                                    ConnectionsWith(root, 2, prop(curveNode, 0, "number")), 1,
                                    [x |-> <<>>, y |-> <<>>, z |-> <<>>], translation)
        zero == <<Curve(<<0>>, <<Fin(0)>>)>>
    IN  IF translation THEN curves
        ELSE [x |-> IF Len(curves.x) = 0 THEN zero ELSE curves.x,
              y |-> IF Len(curves.y) = 0 THEN zero ELSE curves.y,
              z |-> IF Len(curves.z) = 0 THEN zero ELSE curves.z]

\* fbx.ts:554-634 (and 661-738): the three axis curves of a curve node
AxisCurves(root, curveNode, translation) ==
    IF Len(node(root, <<"Connections">>, <<>>)) = 0
       \/ prop(curveNode, 0, "number").t = "undefined"
    THEN [x |-> <<>>, y |-> <<>>, z |-> <<>>]
    ELSE AssignCurves(root, ConnectionsWith(root, 2, prop(curveNode, 0, "number")), 1,
                      [x |-> <<>>, y |-> <<>>, z |-> <<>>], translation)

\* fbx.ts:547-653; the empty sequence stands for null
parseCurveNode(root, curveNode, modelName, eulerOrder) ==
    IF prop(curveNode, 1, "string").s # <<"R">> THEN <<>>
    ELSE The({IF Len(curves.x) = 0 \/ Len(curves.y) = 0 \/ Len(curves.z) = 0 THEN <<>>
              ELSE The({IF Len(generatedKeys.quats) = 0 THEN <<>>
                        ELSE <<[name |-> modelName, original_name |-> modelName,
                                times |-> generatedKeys.times, quats |-> generatedKeys.quats]>> :
                        generatedKeys \in {generateQuaternions(
                                             [x |-> curves.x[1], y |-> curves.y[1],
                                              z |-> curves.z[1]], eulerOrder)}}) :
              curves \in {AxisCurves(root, curveNode, FALSE)}})

\* fbx.ts:655-766
parsePositionCurveNode(root, curveNode, modelName) ==
    IF prop(curveNode, 1, "string").s # <<"T">> THEN <<>>
    ELSE The({IF Len(curves.x) = 0 \/ Len(curves.y) = 0 \/ Len(curves.z) = 0 THEN <<>>
              ELSE PositionKeys([x |-> curves.x[1], y |-> curves.y[1], z |-> curves.z[1]],
                                modelName) :
              curves \in {AxisCurves(root, curveNode, TRUE)}})

\* fbx.ts:297-347: what one connection into a layer adds to the tracks and to
\* the position tracks
CurveNodeTracks(root, objects, curveNodeConn) ==
    LET none == [tracks |-> <<>>, positionTracks |-> <<>>]
    IN  The({IF curveNodeId.t = "undefined" THEN none
             ELSE The({IF Len(curveNode) = 0 THEN none
                       ELSE The({IF Len(modelConns) = 0 THEN none
                                 ELSE IF prop(modelConns[1], 2, "number").t = "undefined" THEN none
                                 ELSE The({IF Len(model) = 0 THEN none
                                           ELSE [tracks |->
                                                    parseCurveNode(root, curveNode[1],
                                                        prop(model[1], 1, "string").s, "ZXY"),
                                                 positionTracks |->
                                                    parsePositionCurveNode(root, curveNode[1],
                                                        prop(model[1], 1, "string").s)] :
                                           model \in {node(objects, <<"Model">>,
                                                           ById(prop(modelConns[1], 2, "number")))}}) :
                                 modelConns \in {SelectSeq(ConnectionsWith(root, 1, curveNodeId),
                                                    LAMBDA c : Len(prop(c, 3, "string").s) > 0)}}) :
                       curveNode \in {node(objects, <<"AnimationCurveNode">>, ById(curveNodeId))}}) :
             curveNodeId \in {prop(curveNodeConn, 1, "number")}})

\* fbx.ts:275-349: the same for one connection into the stack
LayerTracks(root, layerConn) ==
    LET none == [tracks |-> <<>>, positionTracks |-> <<>>]
    IN  The({IF layerId.t = "undefined" \/ Len(objects) = 0 THEN none
             ELSE IF Len(node(objects[1], <<"AnimationLayer">>, ById(layerId))) = 0 THEN none
             ELSE The({[tracks |-> Flatten([k \in 1..Len(found) |-> found[k].tracks]),
                        positionTracks |->
                            Flatten([k \in 1..Len(found) |-> found[k].positionTracks])] :
                       found \in {The({[k \in 1..Len(layerCurveNodes) |->
                                           CurveNodeTracks(root, objects[1], layerCurveNodes[k])] :
                                       layerCurveNodes \in {ConnectionsWith(root, 2, layerId)}})}}) :
             layerId \in {prop(layerConn, 1, "number")},
             objects \in {node(root, <<"Objects">>, <<>>)}})

\* fbx.ts:250-364
parseAnimationStack(root, stackNode) ==
    IF Len(node(root, <<"Connections">>, <<>>)) = 0 THEN <<>>
    ELSE IF prop(stackNode, 0, "number").t = "undefined" THEN <<>>
    ELSE The({IF Len(layerNodes) = 0 THEN <<>>
              ELSE The({The({IF Len(tracks) = 0 /\ Len(positionTracks) = 0 THEN <<>>
                             ELSE <<[name |-> IF Len(prop(stackNode, 1, "string").s) > 0
                                              THEN prop(stackNode, 1, "string").s
                                              ELSE <<"A", "n", "i", "m", "a", "t", "i", "o", "n">>,
                                     duration |-> -1,
                                     tracks |-> tracks,
                                     positionTracks |-> positionTracks]>> :
                             tracks \in {Flatten([k \in 1..Len(found) |-> found[k].tracks])},
                             positionTracks \in
                                 {Flatten([k \in 1..Len(found) |-> found[k].positionTracks])}}) :
                        found \in {[k \in 1..Len(layerNodes) |-> LayerTracks(root, layerNodes[k])]}}) :
              layerNodes \in {ConnectionsWith(root, 2, prop(stackNode, 0, "number"))}})

\* fbx.ts:233-248
parse(root) ==
    The({IF Len(objects) = 0 THEN <<>>
         ELSE The({Flatten([k \in 1..Len(stacks) |-> parseAnimationStack(root, stacks[k])]) :
                   stacks \in {nodes(objects[1], <<"AnimationStack">>, <<>>)}}) :
         objects \in {node(root, <<"Objects">>, <<>>)}})

(***************************************************************************)
(* AnimationParser.parse on the node trees of small scenes: up to MaxStacks*)
(* animation stacks, each with one layer, one bone, a rotation curve node  *)
(* and, if any, a translation curve node.                                  *)
(***************************************************************************)
MaxStacks == 2

\* the kind tags of the connection records of a scene
KindTags == {<<"O", "O">>, <<"O", "P">>}
\* the rotation curves of a bone: all three usable, no curve connected for
\* X, a curve without keys for Z, a curve with fewer values than times for Y
RotationStates == {"complete", "noX", "emptyZ", "mismatchY"}
TreeStates == {"full", "noObjects", "noConnections"}

ConnectionRecord(tag, from, to, relationship) ==
    FBXNode("C", <<StringProp(tag), NumberProp(from), NumberProp(to)>>
                 \o (IF Len(relationship) = 0 THEN <<>> ELSE <<StringProp(relationship)>>),
            <<>>)
AnimationCurve(id, times, values) ==
    FBXNode("AnimationCurve", <<NumberProp(id)>>,
            <<FBXNode("KeyTime", <<NumbersProp(times)>>, <<>>),
              FBXNode("KeyValueFloat", <<NumbersProp(values)>>, <<>>)>>)

\* the ids of the objects of stack s
StackId(s) == 100 * s
LayerId(s) == 100 * s + 1
RotationNodeId(s) == 100 * s + 2
TranslationNodeId(s) == 100 * s + 3
ModelId(s) == 100 * s + 4
CurveId(s, group, axis) == 100 * s + 10 * group + axis
StackName(s) == <<<<"A">>, <<"B">>, <<"C">>>>[s]
BoneName(s) == <<<<"H">>, <<"S">>, <<"N">>>>[s]
AxisName(axis) == <<<<"d", "|", "X">>, <<"d", "|", "Y">>, <<"Z">>>>[axis]

\* the key times count units of 46186158 ticks: 0 s and 1 s
RotationCurve(s, axis, state) ==
    IF state = "emptyZ" /\ axis = 3 THEN AnimationCurve(CurveId(s, 1, axis), <<>>, <<>>)
    ELSE IF state = "mismatchY" /\ axis = 2
    THEN AnimationCurve(CurveId(s, 1, axis), <<0, 1000>>, <<Fin(0)>>)
    ELSE AnimationCurve(CurveId(s, 1, axis), <<0, 1000>>,
                        <<Fin(0), IF axis = 1 THEN Fin(360) ELSE Fin(0)>>)

StackObjects(s, p) ==
    <<FBXNode("AnimationStack", <<NumberProp(StackId(s)), StringProp(StackName(s))>>, <<>>),
      FBXNode("AnimationLayer", <<NumberProp(LayerId(s))>>, <<>>),
      FBXNode("Model", <<NumberProp(ModelId(s)), StringProp(BoneName(s))>>, <<>>),
      FBXNode("AnimationCurveNode", <<NumberProp(RotationNodeId(s)), StringProp(<<"R">>)>>, <<>>)>>
    \o [axis \in 1..3 |-> RotationCurve(s, axis, p.rotation)]
    \o (IF p.translation
        THEN <<FBXNode("AnimationCurveNode",
                       <<NumberProp(TranslationNodeId(s)), StringProp(<<"T">>)>>, <<>>)>>
             \o [axis \in 1..3 |->
                    AnimationCurve(CurveId(s, 2, axis), <<0, 1000>>, <<Fin(0), Fin(100 * axis)>>)]
        ELSE <<>>)

StackConnections(s, p, tag) ==
    (IF p.linked THEN <<ConnectionRecord(tag, LayerId(s), StackId(s), <<>>)>> ELSE <<>>)
    \o <<ConnectionRecord(tag, RotationNodeId(s), LayerId(s), <<>>),
         ConnectionRecord(tag, RotationNodeId(s), ModelId(s), <<"L", "c", "l">>)>>
    \o [k \in 1..(IF p.rotation = "noX" THEN 2 ELSE 3) |->
           LET axis == IF p.rotation = "noX" THEN k + 1 ELSE k
           IN  ConnectionRecord(tag, CurveId(s, 1, axis), RotationNodeId(s), AxisName(axis))]
    \o (IF p.translation
        THEN <<ConnectionRecord(tag, TranslationNodeId(s), LayerId(s), <<>>),
               ConnectionRecord(tag, TranslationNodeId(s), ModelId(s), <<"L", "c", "l">>)>>
             \o [axis \in 1..3 |->
                    ConnectionRecord(tag, CurveId(s, 2, axis), TranslationNodeId(s),
                                     AxisName(axis))]
        ELSE <<>>)

Scene(tree, tag, stacks) ==
    FBXNode("", <<>>,
            <<FBXNode("GlobalSettings", <<>>, <<>>)>>
            \o (IF tree = "noObjects" THEN <<>>
                ELSE <<FBXNode("Objects", <<>>,
                               Flatten([s \in 1..Len(stacks) |-> StackObjects(s, stacks[s])]))>>)
            \o (IF tree = "noConnections" THEN <<>>
                ELSE <<FBXNode("Connections", <<>>,
                               Flatten([s \in 1..Len(stacks) |->
                                           StackConnections(s, stacks[s], tag)]))>>))

InitExtract ==
    /\ pc = "new"
    /\ thrown = "none"
    /\ FbxIdle
    /\ AnimIdle
    /\ ApiIdle
    /\ VmdIdle

\* fbx.ts:229-231: the constructor, on the tree of a scene
NewAnimationParser ==
    /\ pc = "new"
    /\ \E tree \in TreeStates :
       \E tag \in KindTags :
       \E n \in 0..MaxStacks :
       \E stacks \in [1..n -> [linked : BOOLEAN, rotation : RotationStates,
                               translation : BOOLEAN]] :
          /\ tree # "full" => n <= 1
          /\ reader' = Scene(tree, tag, stacks)
    /\ pc' = "parse"
    /\ UNCHANGED <<thrown, animationStacks, clips, axisCurves, generated, positioned,
                   RETARGET_TRANSFORMS, boneTrack, retargetedTrack, vmdVars, fbxVars, apiVars>>

\* fbx.ts:234-240
ParseObjects ==
    /\ pc = "parse"
    /\ clips' = <<>>
    /\ \E objects \in {node(reader, <<"Objects">>, <<>>)} :
          IF Len(objects) = 0
          THEN /\ pc' = "returned"
               /\ UNCHANGED animationStacks
          ELSE /\ animationStacks' = nodes(objects[1], <<"AnimationStack">>, <<>>)
               /\ pc' = "stacks"
    /\ UNCHANGED <<thrown, reader, axisCurves, generated, positioned,
                   RETARGET_TRANSFORMS, boneTrack, retargetedTrack, vmdVars, fbxVars, apiVars>>

\* the loop ended by the first stack that gives no clip
ParseStack_StopAtNull ==
    /\ pc = "stacks"
    /\ animationStacks # <<>>
    /\ \E parsed \in {parseAnimationStack(reader, Head(animationStacks))} :
          /\ clips' = clips \o parsed
          /\ animationStacks' = IF Len(parsed) = 0 THEN <<>> ELSE Tail(animationStacks)
    /\ UNCHANGED <<pc, thrown, reader, axisCurves, generated, positioned,
                   RETARGET_TRANSFORMS, boneTrack, retargetedTrack, vmdVars, fbxVars, apiVars>>

\* fbx.ts:242-245: one pass of the loop over the stacks
ParseStack ==
    /\ pc = "stacks"
    /\ animationStacks # <<>>
    /\ \E parsed \in {parseAnimationStack(reader, Head(animationStacks))} :
          clips' = clips \o parsed
    /\ animationStacks' = Tail(animationStacks)
    /\ UNCHANGED <<pc, thrown, reader, axisCurves, generated, positioned,
                   RETARGET_TRANSFORMS, boneTrack, retargetedTrack, vmdVars, fbxVars, apiVars>>

\* fbx.ts:247
ParseReturn ==
    /\ pc = "stacks"
    /\ animationStacks = <<>>
    /\ pc' = "returned"
    /\ UNCHANGED <<thrown, reader, animationStacks, clips, axisCurves, generated, positioned,
                   RETARGET_TRANSFORMS, boneTrack, retargetedTrack, vmdVars, fbxVars, apiVars>>

NextExtract ==
    \/ NewAnimationParser
    \/ ParseObjects
    \/ ParseStack
    \/ ParseReturn

SpecExtract == InitExtract /\ [][NextExtract]_vars

\* the children of the first child of the root that has the name
ChildrenOf(root, name) ==
    LET ix == {i \in 1..Len(root.nodes) : root.nodes[i].name = name}
    IN  IF ix = {} THEN <<>> ELSE root.nodes[Min(ix)].nodes
IndexOf(root, name) == Min({i \in 1..Len(root.nodes) : root.nodes[i].name = name})
HasChild(root, name) == \E i \in 1..Len(root.nodes) : root.nodes[i].name = name

\* the connection records of the tree, and those with a kind tag other than OO
Records(root) == SelectSeq(ChildrenOf(root, "Connections"), LAMBDA c : c.name = "C")
IsOO(c) == Len(c.props) >= 1 /\ c.props[1] = StringProp(<<"O", "O">>)

\* the tree with the records of another kind tag taken out
OnlyOO(root) ==
    IF ~HasChild(root, "Connections") THEN root
    ELSE [root EXCEPT !.nodes[IndexOf(root, "Connections")].nodes =
             SelectSeq(@, LAMBDA c : c.name # "C" \/ IsOO(c))]

\* the tree with the kind tag of every record set to OO
AllOO(root) ==
    IF ~HasChild(root, "Connections") THEN root
    ELSE [root EXCEPT !.nodes[IndexOf(root, "Connections")].nodes =
             [k \in 1..Len(@) |->
                 IF @[k].name = "C" /\ Len(@[k].props) >= 1
                 THEN [@[k] EXCEPT !.props[1] = StringProp(<<"O", "O">>)]
                 ELSE @[k]]]

\* C11 as stated: during the extraction only the connection records with the
\* kind tag OO are used; a record with another tag selects no layer, curve
\* node, model or axis curve, so the clips are those of the tree without
\* such records.
C11_OnlyOOUsed ==
    pc = "returned" => clips = parse(OnlyOO(reader))

\* C11: the extraction does not inspect the kind tag of a connection record:
\* a record selects a layer, a curve node, a model or an axis curve by its
\* ids and its relationship string, and the tracks and position tracks of the
\* clips are those of the tree with every kind tag set to OO.
C11_KindTagNotInspected ==
    pc = "returned" => clips = parse(AllOO(reader))

C11_Witness ==
    /\ pc = "returned"
    /\ \E k \in 1..Len(Records(reader)) : ~IsOO(Records(reader)[k])
    /\ Len(clips) = MaxStacks
    /\ \A k \in 1..Len(clips) :
          Len(clips[k].tracks) = 1 /\ Len(clips[k].positionTracks) = 1

\* the AnimationCurveNode objects for rotation
RotationNodes(root) ==
    SelectSeq(ChildrenOf(root, "Objects"),
              LAMBDA n : n.name = "AnimationCurveNode" /\ PropAt(n, 1) = StringProp(<<"R">>))

\* the AnimationCurve objects with the id
CurvesWithId(root, id) ==
    SelectSeq(ChildrenOf(root, "Objects"),
              LAMBDA n : n.name = "AnimationCurve" /\ PropAt(n, 0) = id)

\* the axes for which a record into the curve node names a curve that has
\* keys, as many values as times
UsableAxes(root, curveNode) ==
    {AxisOf(PropAt(Records(root)[k], 3).s) :
        k \in {j \in 1..Len(Records(root)) :
                 /\ PropAt(Records(root)[j], 2) = PropAt(curveNode, 0)
                 /\ PropAt(Records(root)[j], 3).t = "string"
                 /\ \E c \in 1..Len(CurvesWithId(root, PropAt(Records(root)[j], 1))) :
                       LET curve == CurvesWithId(root, PropAt(Records(root)[j], 1))[c]
                       IN  /\ Len(KeyTimes(curve)) > 0
                           /\ Len(KeyTimes(curve)) = Len(KeyValues(curve, FALSE))}}
LacksAxis(root, curveNode) == ~({"x", "y", "z"} \subseteq UsableAxes(root, curveNode))

\* the names of the models a record with a relationship string links the
\* curve node to
BoneNamesOf(root, curveNode) ==
    {PropAt(ChildrenOf(root, "Objects")[m], 1).s :
        m \in {i \in 1..Len(ChildrenOf(root, "Objects")) :
                 /\ ChildrenOf(root, "Objects")[i].name = "Model"
                 /\ \E j \in 1..Len(Records(root)) :
                       /\ PropAt(Records(root)[j], 1) = PropAt(curveNode, 0)
                       /\ PropAt(Records(root)[j], 3).t = "string"
                       /\ PropAt(Records(root)[j], 2) = PropAt(ChildrenOf(root, "Objects")[i], 0)}}

\* a usable curve for each axis that a rotation curve node lacks, and the
\* record that links it, added at the end of Objects and of Connections
FreshCurveId(k, axis) == 9000 + 10 * k + axis
AxisLetter(axis) == <<<<"X">>, <<"Y">>, <<"Z">>>>[axis]
MissingAxes(root, k) ==
    IF LacksAxis(root, RotationNodes(root)[k])
    THEN SortedSeq({axis \in 1..3 :
                      AxisOf(AxisLetter(axis)) \notin UsableAxes(root, RotationNodes(root)[k])})
    ELSE <<>>
Completed(root) ==
    IF ~HasChild(root, "Objects") \/ ~HasChild(root, "Connections") THEN root
    ELSE [root EXCEPT
            !.nodes[IndexOf(root, "Objects")].nodes =
                @ \o Flatten([k \in 1..Len(RotationNodes(root)) |->
                        [a \in 1..Len(MissingAxes(root, k)) |->
                            AnimationCurve(FreshCurveId(k, MissingAxes(root, k)[a]),
                                           <<0, 1000>>, <<Fin(0), Fin(0)>>)]]),
            !.nodes[IndexOf(root, "Connections")].nodes =
                @ \o Flatten([k \in 1..Len(RotationNodes(root)) |->
                        [a \in 1..Len(MissingAxes(root, k)) |->
                            ConnectionRecord(<<"O", "P">>,
                                FreshCurveId(k, MissingAxes(root, k)[a]),
                                PropAt(RotationNodes(root)[k], 0).n,
                                AxisLetter(MissingAxes(root, k)[a]))]])]

AllTracks(clipList) == Flatten([k \in 1..Len(clipList) |-> clipList[k].tracks])
AllPositionTracks(clipList) == Flatten([k \in 1..Len(clipList) |-> clipList[k].positionTracks])

\* C12: a rotation curve node that lacks a usable curve for one of the axes
\* X, Y, Z gives no rotation track, and the position tracks are the ones the
\* extractor gives when each such curve node is completed with usable curves.
C12_MissingAxisNoRotationTrack ==
    pc = "returned" =>
        /\ \A k \in 1..Len(RotationNodes(reader)) :
              LacksAxis(reader, RotationNodes(reader)[k]) =>
                  \A t \in 1..Len(AllTracks(clips)) :
                      AllTracks(clips)[t].name \notin BoneNamesOf(reader, RotationNodes(reader)[k])
        /\ AllPositionTracks(clips) = AllPositionTracks(parse(Completed(reader)))

C12_Witness ==
    /\ pc = "returned"
    /\ Len(RotationNodes(reader)) = 1
    /\ LacksAxis(reader, RotationNodes(reader)[1])
    /\ Len(clips) = 1
    /\ Len(clips[1].tracks) = 0
    /\ Len(clips[1].positionTracks) = 1
    /\ clips[1].positionTracks[1].name \in BoneNamesOf(reader, RotationNodes(reader)[1])
    /\ Len(AllTracks(parse(Completed(reader)))) = 1

\* the stacks of the tree, and whether a record leads into the stack
Stacks(root) == SelectSeq(ChildrenOf(root, "Objects"), LAMBDA n : n.name = "AnimationStack")
HasLayerRecord(root, stackNode) ==
    \E k \in 1..Len(Records(root)) : PropAt(Records(root)[k], 2) = PropAt(stackNode, 0)
\* the number of tracks and position tracks found through the records into
\* the stack
TrackCount(root, stackNode) ==
    LET layerNodes == ConnectionsWith(root, 2, PropAt(stackNode, 0))
        found == [k \in 1..Len(layerNodes) |-> LayerTracks(root, layerNodes[k])]
    IN  Len(Flatten([k \in 1..Len(found) |-> found[k].tracks]))
        + Len(Flatten([k \in 1..Len(found) |-> found[k].positionTracks]))
Contributing(root) ==
    SelectSeq(Stacks(root),
              LAMBDA n : HasLayerRecord(root, n) /\ TrackCount(root, n) > 0)

\* C13: parse returns the empty list, and throws nothing, for a tree without
\* an Objects node or without an AnimationStack under it; a stack with no
\* record into it or with no track gives no clip, and the clips returned are
\* those of the other stacks, one each, in the order of the stacks.
C13_EmptyWithoutStacks ==
    /\ thrown = "none"
    /\ pc = "returned" =>
          /\ (~HasChild(reader, "Objects") \/ Len(Stacks(reader)) = 0) => clips = <<>>
          /\ Len(clips) = Len(Contributing(reader))
          /\ \A k \in 1..Len(clips) :
                /\ clips[k].name = PropAt(Contributing(reader)[k], 1).s
                /\ Len(clips[k].tracks) + Len(clips[k].positionTracks)
                      = TrackCount(reader, Contributing(reader)[k])

C13_Witness ==
    /\ pc = "returned"
    /\ Len(Stacks(reader)) = MaxStacks
    /\ ~HasLayerRecord(reader, Stacks(reader)[1])
    /\ Len(clips) = 1
    /\ clips[1].name = PropAt(Stacks(reader)[2], 1).s

(***************************************************************************)
(* convertToVMD on the clip of one bone with two rotation keys, at 0 s and *)
(* at 1 s.                                                                 *)
(***************************************************************************)
OneBoneTwoKeys ==
    /\ Len(clip.boneTracks) = 1
    /\ Len(clip.positionTracks) = 0
    /\ clip.boneTracks[1].times = <<0, MicrosPerSecond>>

FramesOf(blob) == [k \in 1..Len(BoneFrameRecords(blob)) |-> BoneFrameRecords(blob)[k].frame]

\* C22, as stated: for the clip of one bone whose rotation track has the
\* two keys t = 0 s and t = 1 s, convertToVMD at 30 fps writes two
\* bone-frame records with the frame indices 0 and 30, and the blob is 425
\* bytes long.
C22_TwoRecords425 ==
    (Returned /\ OneBoneTwoKeys /\ fps = 30) =>
        /\ FramesOf(result) = <<0, 30>>
        /\ result.size = 425

\* C22, amended: the two records have the frame indices 0 and 30 and the
\* blob is 50 + 4 + 111*2 + 16 + 4 + 135 = 431 bytes long.
C22_TwoRecords431 ==
    (Returned /\ OneBoneTwoKeys /\ fps = 30) =>
        /\ FramesOf(result) = <<0, 30>>
        /\ result.size = 431

C22_Witness ==
    /\ Returned
    /\ OneBoneTwoKeys
    /\ fps = 30
    /\ Len(BoneFrameRecords(result)) = 2
    /\ offset = 431

(***************************************************************************)
(* The write cursor and the bytes written.                                 *)
(***************************************************************************)
\* the writes lie one after the other from offset 0 to the end of the
\* buffer: each byte is written once
WrittenOnce(buf) ==
    /\ Len(buf.segs) > 0
    /\ buf.segs[1].off = 0
    /\ \A j \in 1..(Len(buf.segs) - 1) : buf.segs[j + 1].off = buf.segs[j].off + buf.segs[j].len
    /\ buf.segs[Len(buf.segs)].off + buf.segs[Len(buf.segs)].len = buf.size

\* convertToVMD has ended, by a return or by an error thrown
Ended == pc \in {"done", "error"}

\* C26: for every clip with at least one key time, no write of convertToVMD
\* goes past the end of the buffer, and after the last write the cursor
\* equals the allocated size, every byte having been written exactly once.
C26_CursorEndsAtSize ==
    (Ended /\ HasKeyTime) =>
        /\ ~buffer.threw
        /\ offset = buffer.size
        /\ WrittenOnce(buffer)

(***************************************************************************)
(* Records with the same name and frame index.                             *)
(***************************************************************************)
\* several rotation tracks, or several position tracks, carry one name
SharedName ==
    \E name \in TrackedNames :
        Cardinality(RotationTracksNamed(name)) > 1 \/ Cardinality(PositionTracksNamed(name)) > 1

Number(H, m, l) ==
    LET mid == m + (l \div 65536)
    IN  [H |-> H + (mid \div 65536), M |-> mid % 65536, L |-> l % 65536]

\* the halves of the two words of the eight bytes at off
LowWord(b, off) == [hi |-> b[off + 3] + 256 * b[off + 4], lo |-> b[off + 1] + 256 * b[off + 2]]
HighWord(b, off) == [hi |-> b[off + 7] + 256 * b[off + 8], lo |-> b[off + 5] + 256 * b[off + 6]]

\* ToInt32 of a word: the halves with the upper one signed
ToInt32(w) == [hi |-> IF w.hi >= 32768 THEN w.hi - 65536 ELSE w.hi, lo |-> w.lo]

\* line 1020: (~low + 1) & 0xFFFFFFFF, an int32
NegLow(low) ==
    ToInt32([hi |-> (65535 - low.hi + (IF low.lo = 0 THEN 1 ELSE 0)) % 65536,
             lo |-> (65536 - low.lo) % 65536])

\* line 1021: (~high) & 0xFFFFFFFF for a high word with its top bit set
NegHigh(high) == (65535 - high.hi) * 65536 + (65535 - high.lo)

\* lines 1014-1029
Int64Number(b, off) ==
    LET low == LowWord(b, off)
        high == HighWord(b, off)
    IN  IF high.hi >= 32768
        THEN LET negLow == NegLow(low)
                 negHigh == NegHigh(high)
             IN  IF negLow.hi = 0 /\ negLow.lo = 0
                 THEN Number(-negHigh, 0, 0)
                 ELSE Number(-negHigh, -negLow.hi, -negLow.lo)
        ELSE Number(high.hi * 65536 + high.lo, low.hi, low.lo)

\* the two's-complement value of the eight bytes at off
TwosComplement(b, off) ==
    LET low == LowWord(b, off)
        high == ToInt32(HighWord(b, off))
    IN  Number(high.hi * 65536 + high.lo, low.hi, low.lo)

\* |v| <= 2^53 - 1
SafeInteger(v) ==
    /\ v.H >= -2097152
    /\ v.H <= 2097151
    /\ ~(v.H = -2097152 /\ v.M = 0 /\ v.L = 0)

U16(n) == <<n % 256, n \div 256>>

Int64Inputs ==
    {U16(ll) \o U16(lh) \o U16(hl) \o U16(hh) :
        ll \in {0, 1, 65535}, lh \in {0, 32767, 32768, 65535},
        hl \in {0, 1, 65535}, hh \in {0, 31, 65504, 65535}}

InitInt64 ==
    /\ pc = "reader"
    /\ thrown = "none"
    /\ binary \in Int64Inputs
    /\ header64 = FALSE
    /\ dataOffset = 0
    /\ stack = <<>>
    /\ fbx = <<>>
    /\ AnimIdle
    /\ VmdIdle
    /\ ApiIdle

\* fbx.ts:1014-1029
ReadInt64 ==
    /\ pc = "reader"
    /\ int64' = Int64Number(binary, dataOffset)
    /\ dataOffset' = dataOffset + 8
    /\ pc' = "readInt64"
    /\ UNCHANGED <<thrown, binary, header64, stack, fbx, vmdVars, animVars, positionVars,
                   queryVars, loaderVars, playerVars, hierarchyVars>>

NextInt64 == ReadInt64

SpecInt64 == InitInt64 /\ [][NextInt64]_vars

(***************************************************************************)
(* C25.  As claimed: for every eight bytes whose two's-complement value v  *)
(* is a safe integer, readInt64 returns v, for negative v as for positive. *)
(***************************************************************************)
C25_ReturnsTwosComplement ==
    (pc = "readInt64" /\ SafeInteger(TwosComplement(binary, 0)))
        => int64 = TwosComplement(binary, 0)

\* what the model finds instead: v is returned when it is not negative, and
\* when it is negative with a low word above 2^31
C25_NonNegativeOrHighLowWord ==
    (/\ pc = "readInt64"
     /\ \/ HighWord(binary, 0).hi < 32768
        \/ LowWord(binary, 0).hi > 32768
        \/ LowWord(binary, 0).hi = 32768 /\ LowWord(binary, 0).lo > 0)
        => int64 = TwosComplement(binary, 0)

(***************************************************************************)
(* FBXLoader.load: fetch(url).then(response => ...).then(buffer => ...)    *)
(* .catch(error => ...), one action per settled promise of the chain.      *)
(*                                                                         *)
(* response is what the host does with the request, parseOutcome whether   *)
(* parsing and extraction return or throw, onLoad and onError whether the  *)
(* callback is absent, returns or throws.                                  *)
(***************************************************************************)
Responses == {"rejected", "notOk", "bodyRejected", "ok"}
Outcomes == {"returns", "throws"}
Callbacks == {"absent", "returns", "throws"}

InitLoad ==
    /\ pc = "load"
    /\ thrown = "none"
    /\ FbxIdle
    /\ AnimIdle
    /\ VmdIdle
    /\ PositionIdle
    /\ QueryIdle
    /\ Int64Idle
    /\ response \in Responses
    /\ parseOutcome \in Outcomes
    /\ onLoad \in Callbacks
    /\ onError \in Callbacks
    /\ onLoadCalls = 0
    /\ onErrorCalls = 0
    /\ consoleErrors = 0
    /\ PlayerIdle
    /\ HierarchyIdle

LoadUnchanged ==
    UNCHANGED <<thrown, response, parseOutcome, onLoad, onError, vmdVars, fbxVars, animVars,
                positionVars, queryVars, int64Vars, playerVars, hierarchyVars>>

\* fbx.ts:190: the request settles
Fetch ==
    /\ pc = "load"
    /\ pc' = IF response = "rejected" THEN "catch" ELSE "response"
    /\ UNCHANGED <<onLoadCalls, onErrorCalls, consoleErrors>>
    /\ LoadUnchanged

\* fbx.ts:191-194: the first then; a throw or a rejected body rejects the chain
ThenResponse ==
    /\ pc = "response"
    /\ pc' = IF response = "ok" THEN "buffer" ELSE "catch"
    /\ UNCHANGED <<onLoadCalls, onErrorCalls, consoleErrors>>
    /\ LoadUnchanged

\* fbx.ts:195-209: the second then; its catch block runs when parsing or
\* onLoad throws, and a throw of onError inside it rejects the chain
ThenBuffer ==
    /\ pc = "buffer"
    /\ LET called == parseOutcome = "returns" /\ onLoad # "absent"
           caught == parseOutcome = "throws" \/ (called /\ onLoad = "throws")
       IN  /\ onLoadCalls' = IF called THEN onLoadCalls + 1 ELSE onLoadCalls
           /\ onErrorCalls' = IF caught /\ onError # "absent"
                              THEN onErrorCalls + 1 ELSE onErrorCalls
           /\ consoleErrors' = IF caught /\ onError = "absent"
                               THEN consoleErrors + 1 ELSE consoleErrors
           /\ pc' = IF caught /\ onError = "throws" THEN "catch" ELSE "settled"
    /\ LoadUnchanged

\* fbx.ts:210-216: a throw of onError here leaves the chain rejected
Catch ==
    /\ pc = "catch"
    /\ onErrorCalls' = IF onError # "absent" THEN onErrorCalls + 1 ELSE onErrorCalls
    /\ consoleErrors' = IF onError = "absent" THEN consoleErrors + 1 ELSE consoleErrors
    /\ pc' = IF onError = "throws" THEN "rejected" ELSE "settled"
    /\ UNCHANGED onLoadCalls
    /\ LoadUnchanged

NextLoad ==
    \/ Fetch
    \/ ThenResponse
    \/ ThenBuffer
    \/ Catch

SpecLoad == InitLoad /\ [][NextLoad]_vars

LoadEnded == pc \in {"settled", "rejected"}
BothSupplied == onLoad # "absent" /\ onError # "absent"

(***************************************************************************)
(* C27.  As claimed: when load is called with both onLoad and onError,     *)
(* exactly one of the two callbacks is invoked, exactly once, whether the  *)
(* fetch rejects, the status is not ok, parsing or extraction throws, or   *)
(* the invoked callback itself throws.                                     *)
(***************************************************************************)
C27_ExactlyOneCallbackOnce ==
    (LoadEnded /\ BothSupplied) => onLoadCalls + onErrorCalls = 1

\* what the model finds instead: exactly one call when the callback invoked
\* first does not throw
C27_OnceUnlessCallbackThrows ==
    (/\ LoadEnded
     /\ BothSupplied
     /\ ~(onLoadCalls = 1 /\ onLoad = "throws")
     /\ onError # "throws")
        => onLoadCalls + onErrorCalls = 1

(***************************************************************************)
(* playClipDirectly (part_000:302-355): the call itself, which runs the    *)
(* first playFrame, the host firing a pending timer, which runs playFrame  *)
(* again, and the host calling the function returned.  JavaScript runs     *)
(* each of the three to completion, so each is one action.                 *)
(*                                                                         *)
(* A timer is its id, a positive integer; timeoutId 0 is null.  Times are  *)
(* in microseconds, and so is the duration handed to the engine.           *)
(***************************************************************************)
\* lines 328-336: the keys of the records rotations and positions, whose
\* values are those of interpolateQuat and interpolatePosition at the time
RecordKeys(tracks) ==
    LET f[i \in 0..Len(tracks)] ==
            IF i = 0 THEN <<>>
            ELSE IF tracks[i].name \in Range(f[i - 1]) THEN f[i - 1]
            ELSE Append(f[i - 1], tracks[i].name)
    IN  f[Len(tracks)]

\* line 326: nextTime ? (nextTime - time) * 1000 : 16
Duration(times, index) ==
    IF index + 2 <= Len(times) /\ times[index + 2] # 0
    THEN times[index + 2] - times[index + 1]
    ELSE 16000

\* lines 338-339: a call is the function, the time of the frame, the bones
\* of the record and the duration
EngineCall(fn, bones, time, duration) ==
    IF bones = <<>> THEN <<>>
    ELSE <<[fn |-> fn, time |-> time, bones |-> bones, duration |-> duration]>>
EngineCalls(c, time, duration) ==
    EngineCall("rotateBones", RecordKeys(c.boneTracks), time, duration)
    \o EngineCall("moveBones", RecordKeys(c.positionTracks), time, duration)

\* line 343: the test that schedules the next playFrame
MoreFrames_Always(index, times) == TRUE
MoreFrames(index, times) == index < Len(times)

\* lines 320-347: playFrame on the player's variables
PlayFrame(c, times, index, id, pending, calls, halted) ==
    IF halted
    THEN [frameIndex |-> index, timeoutId |-> id, timers |-> pending, engineCalls |-> calls]
    ELSE LET at == IF index >= Len(times) THEN 0 ELSE index
             more == MoreFrames(at + 1, times)
         IN  [frameIndex |-> at + 1,
              timeoutId |-> IF more THEN id + 1 ELSE id,
              timers |-> IF more THEN pending \cup {id + 1} ELSE pending,
              engineCalls |-> calls \o EngineCalls(c, times[at + 1], Duration(times, at))]

PlayClips ==
    {Clip(<<<<<<97>>, r>>>>, <<>>) : r \in TimeLists}
    \cup {Clip(<<<<<<97>>, r>>>>, <<<<<<97>>, p>>>>) : r \in TimeLists, p \in TimeLists}
    \cup {Clip(<<>>, <<<<<<66>>, p>>>>) : p \in TimeLists}

InitPlay ==
    /\ pc = "start"
    /\ thrown = "none"
    /\ FbxIdle
    /\ AnimIdle
    /\ clip \in PlayClips
    /\ fps = 30
    /\ positionTrackMap = <<>>
    /\ keyframeMap = <<>>
    /\ keyframes = <<>>
    /\ buffer = NewBuffer(0)
    /\ offset = 0
    /\ next = 1
    /\ result = <<>>
    /\ ApiIdle

PlayUnchanged ==
    UNCHANGED <<thrown, clip, fps, keyframeMap, keyframes, buffer, offset, next, result,
                fbxVars, animVars, positionVars, queryVars, int64Vars, loaderVars,
                hierarchyVars>>

\* lines 306-318 and 349: the call; without key times the function returned
\* does nothing
PlayClipDirectly ==
    /\ pc = "start"
    /\ \E times \in {SortedSeq(AllTimes(clip))} :
           /\ sortedTimes' = times
           /\ IF times = <<>>
              THEN /\ pc' = "idle"
                   /\ UNCHANGED <<positionTrackMap, frameIndex, timeoutId, timers, engineCalls>>
              ELSE \E frame \in {PlayFrame(clip, times, 0, 0, {}, <<>>, FALSE)} :
                   /\ pc' = "playing"
                   /\ positionTrackMap' = BuildPositionTrackMap(clip)
                   /\ frameIndex' = frame.frameIndex
                   /\ timeoutId' = frame.timeoutId
                   /\ timers' = frame.timers
                   /\ engineCalls' = frame.engineCalls
    /\ UNCHANGED stopped
    /\ PlayUnchanged

\* the host runs the callback of a pending timer
TimerFires ==
    /\ pc = "playing"
    /\ \E id \in timers :
       \E frame \in {PlayFrame(clip, sortedTimes, frameIndex, timeoutId, timers \ {id},
                               engineCalls, stopped)} :
           /\ frameIndex' = frame.frameIndex
           /\ timeoutId' = frame.timeoutId
           /\ timers' = frame.timers
           /\ engineCalls' = frame.engineCalls
    /\ UNCHANGED <<pc, sortedTimes, stopped, positionTrackMap>>
    /\ PlayUnchanged

\* lines 351-354: the function returned
Stop ==
    /\ pc = "playing"
    /\ stopped' = TRUE
    /\ timers' = IF timeoutId # 0 THEN timers \ {timeoutId} ELSE timers
    /\ UNCHANGED <<pc, sortedTimes, frameIndex, timeoutId, engineCalls, positionTrackMap>>
    /\ PlayUnchanged

NextPlay ==
    \/ PlayClipDirectly
    \/ TimerFires
    \/ Stop

SpecPlay == InitPlay /\ [][NextPlay]_vars

\* the host fires every timer it holds
FairSpecPlay == SpecPlay /\ WF_vars(PlayClipDirectly) /\ WF_vars(TimerFires)

\* the times of the engine calls made, one entry per playFrame
RECURSIVE FrameTimes(_)
FrameTimes(calls) ==
    IF calls = <<>> THEN <<>>
    ELSE LET rest == FrameTimes(Tail(calls))
         IN  IF rest # <<>> /\ rest[1] = calls[1].time THEN rest
             ELSE <<calls[1].time>> \o rest

DistinctKeyTimes == SortedSeq(AllTimes(clip))

(***************************************************************************)
(* C28.  Once the function returned by playClipDirectly has been called,   *)
(* neither engine.rotateBones nor engine.moveBones is called again,        *)
(* whatever timer is pending; and while it has not been called, playFrame  *)
(* runs once for each distinct key time, in ascending order, after which   *)
(* no timer is pending: the play ends, unless it is stopped.               *)
(***************************************************************************)
C28_StopSilencesAndPlaysOnce ==
    /\ [][stopped => engineCalls' = engineCalls]_vars
    /\ [](pc # "start" =>
            /\ frameIndex <= Len(DistinctKeyTimes)
            /\ FrameTimes(engineCalls) = SubSeq(DistinctKeyTimes, 1, frameIndex)
            /\ (frameIndex = Len(DistinctKeyTimes) => timers = {}))
    /\ <>(pc # "start" /\ (stopped \/ (frameIndex = Len(DistinctKeyTimes) /\ timers = {})))

C28_Witness ==
    /\ pc = "playing"
    /\ stopped
    /\ frameIndex >= 1
    /\ frameIndex < Len(sortedTimes)
    /\ timers = {}

(***************************************************************************)
(* AnimationParser.buildBoneHierarchy (fbx.ts:366-422) on the tree of a    *)
(* scene.  A bone name is the sequence of its parts, as in the retargeter; *)
(* the hierarchy is a Map from bone name to [parent, children], parent     *)
(* <<>> for null.                                                          *)
(***************************************************************************)
MaxConnections == 2   \* C records of a scene

\* name.replace(/^mixamorig:?/i, '')
StripMixamorig(name) ==
    IF name # <<>> /\ name[1] \in {"mixamorig:", "MIXAMORIG:", "mixamorig"} THEN Tail(name)
    ELSE name

\* lines 387-390: the first Model whose name is the bone's, with or without the prefix
ModelOf(objects, boneName) ==
    LET models == nodes(objects, <<"Model">>, <<>>)
        found == {i \in 1..Len(models) :
                    /\ prop(models[i], 1, "string").t = "string"
                    /\ \/ prop(models[i], 1, "string").s = boneName
                       \/ StripMixamorig(prop(models[i], 1, "string").s)
                              = StripMixamorig(boneName)}
    IN  IF found = {} THEN <<>> ELSE <<models[Min(found)]>>

\* lines 384-397
ModelIdToName(objects, names) ==
    LET f[i \in 0..Len(names)] ==
            IF i = 0 THEN <<>>
            ELSE LET model == ModelOf(objects, names[i])
                 IN  IF model # <<>> /\ prop(model[1], 0, "number").t = "number"
                     THEN MapSet(f[i - 1], prop(model[1], 0, "number").n, names[i])
                     ELSE f[i - 1]
    IN  f[Len(names)]

\* lines 372-374
InitialHierarchy(names) ==
    LET f[i \in 0..Len(names)] ==
            IF i = 0 THEN <<>>
            ELSE MapSet(f[i - 1], names[i], [parent |-> <<>>, children |-> <<>>])
    IN  f[Len(names)]

\* lines 400-419: one connection
Connect(h, ids, conn) ==
    LET childId == prop(conn, 1, "number")
        parentId == prop(conn, 2, "number")
        connType == prop(conn, 0, "string")
    IN  IF connType # StringProp(<<"OO">>) THEN h
        ELSE IF childId.t = "undefined" \/ parentId.t = "undefined" THEN h
        ELSE IF ~(MapHas(ids, childId.n) /\ MapHas(ids, parentId.n)) THEN h
        ELSE LET childName == MapGet(ids, childId.n)
                 parentName == MapGet(ids, parentId.n)
             IN  IF childName # <<>> /\ parentName # <<>>
                    /\ MapHas(h, childName) /\ MapHas(h, parentName)
                 THEN LET withParent ==
                              MapSet(h, childName,
                                     [MapGet(h, childName) EXCEPT !.parent = <<parentName>>])
                      IN  MapSet(withParent, parentName,
                                 [MapGet(withParent, parentName) EXCEPT
                                     !.children = Append(@, childName)])
                 ELSE h

\* lines 366-422
buildBoneHierarchy(root, names) ==
    LET allConns == node(root, <<"Connections">>, <<>>)
        objects == node(root, <<"Objects">>, <<>>)
    IN  IF allConns = <<>> THEN <<>>
        ELSE IF objects = <<>> THEN InitialHierarchy(names)
        ELSE LET allConnsList == nodes(allConns[1], <<"C">>, <<>>)
                 ids == ModelIdToName(objects[1], names)
                 f[i \in 0..Len(allConnsList)] ==
                     IF i = 0 THEN InitialHierarchy(names)
                     ELSE Connect(f[i - 1], ids, allConnsList[i])
             IN  f[Len(allConnsList)]

\* the scenes of the model: three models, and up to MaxConnections records
\* of Connections, each an OO connection between two of them or a record
\* of another kind
ModelIds == {1, 2, 3}
ModelNames == <<<<"mixamorig:", "a">>, <<"b">>, <<"c">>>>
ModelNode(id) == FBXNode("Model", <<NumberProp(id), StringProp(ModelNames[id])>>, <<>>)
CNode(kind, child, parent) ==
    FBXNode("C", <<StringProp(<<kind>>), NumberProp(child), NumberProp(parent)>>, <<>>)
CNodes == {CNode("OO", c, p) : c \in ModelIds, p \in ModelIds} \cup {CNode("OP", 1, 2)}
HierarchyScenes ==
    {FBXNode("", <<>>, <<FBXNode("Objects", <<>>, [i \in 1..3 |-> ModelNode(i)]),
                         FBXNode("Connections", <<>>, conns)>>) :
        conns \in UNION {[1..n -> CNodes] : n \in 0..MaxConnections}}
    \cup {FBXNode("", <<>>, <<FBXNode("Objects", <<>>, [i \in 1..3 |-> ModelNode(i)])>>),
          FBXNode("", <<>>, <<FBXNode("Connections", <<>>, <<CNode("OO", 1, 2)>>)>>)}
TrackedBoneNames == {<<<<"a">>, <<"b">>, <<"c">>>>, <<<<"mixamorig:", "a">>, <<"b">>>>}

InitHierarchy ==
    /\ pc = "tracks"
    /\ thrown = "none"
    /\ FbxIdle
    /\ VmdIdle
    /\ reader \in HierarchyScenes
    /\ animationStacks = <<>>
    /\ clips = <<>>
    /\ axisCurves = <<>>
    /\ generated = <<>>
    /\ positioned = <<>>
    /\ RETARGET_TRANSFORMS = <<>>
    /\ boneTrack = <<>>
    /\ retargetedTrack = <<>>
    /\ PositionIdle
    /\ QueryIdle
    /\ Int64Idle
    /\ LoaderIdle
    /\ PlayerIdle
    /\ boneNames \in TrackedBoneNames
    /\ hierarchy = <<>>

\* fbx.ts:355, 366-422
BuildBoneHierarchy ==
    /\ pc = "tracks"
    /\ hierarchy' = buildBoneHierarchy(reader, boneNames)
    /\ pc' = "hierarchy"
    /\ UNCHANGED <<thrown, boneNames, vmdVars, fbxVars, animVars, positionVars, queryVars,
                   int64Vars, loaderVars, playerVars>>

NextHierarchy == BuildBoneHierarchy

SpecHierarchy == InitHierarchy /\ [][NextHierarchy]_vars

Tracked == {hierarchy[i].k : i \in 1..Len(hierarchy)}
ParentOf(c) == MapGet(hierarchy, c).parent
ChildListOf(p) == MapGet(hierarchy, p).children
Occurrences(s, x) == Cardinality({i \in 1..Len(s) : s[i] = x})

(***************************************************************************)
(* C30.  As claimed: in the Map returned by buildBoneHierarchy, for all    *)
(* tracked bones c and p, c is among the children of p exactly if the      *)
(* parent of c is p, c is there at most once, and no bone is its own       *)
(* parent, whatever the OO connections are.                                *)
(***************************************************************************)
C30_ChildrenMirrorParents ==
    pc = "hierarchy" =>
        \A c \in Tracked :
            /\ ParentOf(c) # <<c>>
            /\ \A p \in Tracked :
                  /\ (Occurrences(ChildListOf(p), c) > 0) <=> (ParentOf(c) = <<p>>)
                  /\ Occurrences(ChildListOf(p), c) <= 1

\* what the model finds instead: a bone is among the children of its parent,
\* and a bone among the children of p was connected to p
C30_ParentListsChild ==
    pc = "hierarchy" =>
        \A c \in Tracked :
            ParentOf(c) # <<>> => Occurrences(ChildListOf(ParentOf(c)[1]), c) > 0

(***************************************************************************)
(* FBXReaderNode.node and FBXReaderNode.nodes on one node, fbx.ts:63-116.  *)
(* An argument is [t, s, entries]: t is "undefined", "string" (s the name) *)
(* or "object" (entries the property filter's entries [index, value]).     *)
(***************************************************************************)
NoArgument == [t |-> "undefined", s |-> "", entries |-> <<>>]
NameArgument(s) == [t |-> "string", s |-> s, entries |-> <<>>]
FilterArgument(entries) == [t |-> "object", s |-> "", entries |-> entries]

\* fbx.ts:64-70: the name and the property filter taken from a and b, each
\* a sequence of at most one element
FilterName(a, b) == IF a.t = "string" THEN <<a.s>> ELSE <<>>
FilterProps(a, b) ==
    IF a.t = "string" THEN (IF b.t # "undefined" THEN <<b.entries>> ELSE <<>>)
    ELSE IF a.t = "object" THEN <<a.entries>>
    ELSE <<>>

MaxChildren == 3

ChildNodes ==
    {FBXNode("A", <<NumberProp(1)>>, <<>>),
     FBXNode("A", <<NumberProp(2), StringProp(<<"x">>)>>, <<>>),
     FBXNode("B", <<NumberProp(1)>>, <<>>),
     FBXNode("B", <<>>, <<>>)}
PropFilters ==
    {<<>>, <<[index |-> 0, value |-> NumberProp(1)]>>,
     <<[index |-> 0, value |-> NumberProp(2)], [index |-> 1, value |-> StringProp(<<"x">>)]>>,
     <<[index |-> 1, value |-> UndefinedProp]>>}
\* the calls the two overloads allow: (name, propFilter?) and (propFilter?)
NodeArguments ==
    {<<NameArgument(s), NoArgument>> : s \in {"A", "B", "Z"}}
    \cup {<<NameArgument(s), FilterArgument(f)>> : s \in {"A", "B"}, f \in PropFilters}
    \cup {<<FilterArgument(f), NoArgument>> : f \in PropFilters}
    \cup {<<NoArgument, NoArgument>>}

InitQuery ==
    /\ pc = "reader"
    /\ thrown = "none"
    /\ FbxIdle
    /\ AnimIdle
    /\ VmdIdle
    /\ PositionIdle
    /\ \E n \in 0..MaxChildren :
       \E children \in [1..n -> ChildNodes] :
          readerNode = FBXNode("Objects", <<>>, children)
    /\ nodeArgs = <<>>
    /\ nodeFound = <<>>
    /\ nodesFound = <<>>
    /\ Int64Idle
    /\ LoaderIdle
    /\ PlayerIdle
    /\ HierarchyIdle

\* fbx.ts:98-104: nodeFound is <<>> for undefined
Node ==
    /\ pc = "reader"
    /\ \E args \in NodeArguments :
          /\ nodeArgs' = args
          /\ nodeFound' = node(readerNode, FilterName(args[1], args[2]),
                               FilterProps(args[1], args[2]))
    /\ pc' = "node"
    /\ UNCHANGED <<thrown, readerNode, nodesFound, vmdVars, fbxVars, animVars, positionVars,
                   int64Vars, loaderVars, playerVars, hierarchyVars>>

\* fbx.ts:111-116
Nodes ==
    /\ pc = "reader"
    /\ \E args \in NodeArguments :
          /\ nodeArgs' = args
          /\ nodesFound' = nodes(readerNode, FilterName(args[1], args[2]),
                                 FilterProps(args[1], args[2]))
    /\ pc' = "nodes"
    /\ UNCHANGED <<thrown, readerNode, nodeFound, vmdVars, fbxVars, animVars, positionVars,
                   int64Vars, loaderVars, playerVars, hierarchyVars>>

NextQuery ==
    \/ Node
    \/ Nodes

SpecQuery == InitQuery /\ [][NextQuery]_vars

(***************************************************************************)
(* The children a query is to return.                                      *)
(***************************************************************************)
TagSupplied == nodeArgs[1].t = "string"
PredicateSupplied == nodeArgs[1].t = "object" \/ nodeArgs[2].t = "object"
Predicate == IF nodeArgs[1].t = "object" THEN nodeArgs[1].entries ELSE nodeArgs[2].entries

\* the child's name equals the tag when one is supplied, and its properties
\* at the predicate's indices are strictly equal to the predicate's values
\* when one is supplied
Wanted(child) ==
    /\ TagSupplied => child.name = nodeArgs[1].s
    /\ PredicateSupplied =>
          \A k \in 1..Len(Predicate) :
              StrictEquals(PropAt(child, Predicate[k].index), Predicate[k].value)
WantedChildren == SelectSeq(readerNode.nodes, Wanted)

\* C23, as stated: node returns the first child, in declaration order, that
\* has the tag (when supplied) and the predicate's property values (when
\* supplied), the first child when neither is supplied; nodes returns all
\* such children in declaration order.
C23_FirstAndAllMatching ==
    /\ pc = "node" =>
          nodeFound = (IF WantedChildren = <<>> THEN <<>> ELSE <<WantedChildren[1]>>)
    /\ pc = "nodes" => nodesFound = WantedChildren

\* the same for the calls that supply a tag or a predicate
C23_WithTagOrPredicate ==
    (pc \in {"node", "nodes"} /\ (TagSupplied \/ PredicateSupplied)) => C23_FirstAndAllMatching

====
